---- MODULE Spec2Model ----
(***************************************************************************)
(* A model of the query path of the cybertantra monorepo:                  *)
(*   - the Telegram webhook's sliding-window rate limiter (checkRateLimit) *)
(*   - the Telegram question handler (handleQuestion)                      *)
(*   - the chat endpoint (POST of /api/chat)                               *)
(*   - the webhook route (POST, GET, HEAD) and the bot's handlers          *)
(*   - the browser navigation, the command submission and the render-time  *)
(*     merge of the Terminal component                                     *)
(*   - the useAudioRecorder hook                                           *)
(* Strings are TLA+ strings; times are milliseconds as Date.now() returns  *)
(* them.                                                                   *)
(***************************************************************************)
EXTENDS Integers, Sequences, FiniteSets, TLC

VARIABLES
  clock,       \* the value Date.now() returns
  rateLimits,  \* the module-level Map<string, number[]> of route.ts
  rlCall,      \* the latest direct call of checkRateLimit: arguments and result
  recentAllowed, \* history: per identity, the times of the allowed calls made
               \* less than 60 s before the current instant
  everDenied,  \* history: per identity, whether a call was ever denied
  config,      \* what getAIConfig() returns (read from the environment)
  terminal,    \* the Terminal component: browsers, history, messages, render
  tg,          \* per Telegram handler invocation: position and locals
  chat,        \* per chat request: position and locals
  webhook,     \* the Telegram webhook request being answered: position, update
               \* and response
  recorder     \* the useAudioRecorder hook: state, refs and the recordings made

vars == <<clock, rateLimits, rlCall, recentAllowed, everDenied, config, terminal,
          tg, chat, webhook, recorder>>

----------------------------------------------------------------------------
(* Bounds of the model *)

\* Date.now() ranges over the instants e * RATE_LIMIT_WINDOW + d,
\* e \in 0..MaxEpoch, d \in {0, RATE_LIMIT_WINDOW - 1}
MaxEpoch == 1
\* identities (Telegram user ids) are 1..NumUsers
NumUsers == 1
\* concurrently running handleQuestion invocations are 1..NumHandlers
NumHandlers == 2
\* the longest sequence retrieve resolves with
MaxChunks == 2
\* the most fragments a completion stream delivers
MaxFragments == 6
\* the most fragments of a stream where the chat endpoint runs beside the handler
MaxShortStream == 3
\* the largest maxItems a browser is configured with
MaxMaxItems == 3
\* the longest ranked list retrieve resolves with where the sources are listed
MaxRanked == 6
\* the length of the terminal's history up to which a handler is called again
MaxHistory == 3
\* the length of the chat's message list up to which a message is added
MaxMessages == 3
\* the iterations of the merge's outer loop that are followed
MaxIterations == 8
\* the calls of startRecording that are followed
MaxRecordings == 2
\* the most chunks audioChunksRef holds
MaxAudioChunks == 2
\* the code configures no total size for the context; the size the statement of
\* a bounded context is tried with
ContextSizeLimit == 64

----------------------------------------------------------------------------
(* Program constants *)

RATE_LIMIT_WINDOW == 60000
MAX_REQUESTS == 10

Users == 1..NumUsers
Handlers == 1..NumHandlers

ClockValues ==
  { e * RATE_LIMIT_WINDOW + d : e \in 0..MaxEpoch, d \in {0, RATE_LIMIT_WINDOW - 1} }

----------------------------------------------------------------------------
(* The rate limiter: route.ts, checkRateLimit *)

\* the Map with no entries
EmptyMap == [u \in {} |-> <<>>]

\* rateLimits.get(userId) || []
MapGet(limits, userId) ==
  IF userId \in DOMAIN limits THEN limits[userId] ELSE <<>>

\* faulty variant: one list is kept for all identities
MapSetAll(limits, userId, value) ==
  [u \in (DOMAIN limits) \cup {userId} |-> value]

\* rateLimits.set(userId, value)
MapSet(limits, userId, value) ==
  [u \in (DOMAIN limits) \cup {userId} |-> IF u = userId THEN value ELSE limits[u]]

\* faulty variant: an entry exactly one window old still counts
InWindowLe(now, t) == now - t <= RATE_LIMIT_WINDOW

\* the filter predicate t => now - t < RATE_LIMIT_WINDOW
InWindow(now, t) == now - t < RATE_LIMIT_WINDOW

\* userRequests.filter(t => now - t < RATE_LIMIT_WINDOW)
ValidRequests(limits, userId, now) ==
  SelectSeq(MapGet(limits, userId), LAMBDA t : InWindow(now, t))

\* faulty variant: one request too many is let through
AllowedOffByOne(limits, userId, now) ==
  Len(ValidRequests(limits, userId, now)) <= MAX_REQUESTS

\* the value checkRateLimit returns
Allowed(limits, userId, now) ==
  ~ (Len(ValidRequests(limits, userId, now)) >= MAX_REQUESTS)

\* faulty variant: now is appended to the unfiltered list
StoreUnpruned(limits, userId, now) ==
  IF Allowed(limits, userId, now)
    THEN MapSet(limits, userId, Append(MapGet(limits, userId), now))
    ELSE limits

\* faulty variant: the earlier timestamps are lost when now is stored
StoreOverwrite(limits, userId, now) ==
  IF Allowed(limits, userId, now)
    THEN MapSet(limits, userId, <<now>>)
    ELSE limits

\* faulty variant: the request is checked but not recorded
StoreNothing(limits, userId, now) == limits

\* the Map after checkRateLimit returned
StoreAfter(limits, userId, now) ==
  IF Allowed(limits, userId, now)
    THEN MapSet(limits, userId, Append(ValidRequests(limits, userId, now), now))
    ELSE limits

NoCall == [called |-> FALSE]

\* history: an allowed call is recorded with its time
RecentAfter(recent, limits, userId, now) ==
  IF Allowed(limits, userId, now)
    THEN [recent EXCEPT ![userId] = Append(@, now)]
    ELSE recent

\* history: a denied call is remembered
DeniedAfter(denied, limits, userId, now) ==
  IF Allowed(limits, userId, now)
    THEN denied
    ELSE [denied EXCEPT ![userId] = TRUE]

\* history: the recorded times that are less than 60 s old at instant now
StillRecent(recent, now) ==
  [u \in DOMAIN recent |-> SelectSeq(recent[u], LAMBDA t : now - t < 60000)]

\* Date.now() moves on; it never goes back
Tick ==
  /\ \E t \in ClockValues : t > clock /\ clock' = t
  /\ recentAllowed' = StillRecent(recentAllowed, clock')
  /\ UNCHANGED <<rateLimits, rlCall, everDenied, config, terminal, tg, chat,
                 webhook, recorder>>

\* one call checkRateLimit(userId), start to return (it has no await)
CheckRateLimit(userId) ==
  /\ rlCall' = [called |-> TRUE, userId |-> userId, now |-> clock,
                before |-> rateLimits,
                recentBefore |-> recentAllowed[userId],
                result |-> Allowed(rateLimits, userId, clock)]
  /\ rateLimits' = StoreAfter(rateLimits, userId, clock)
  /\ recentAllowed' = RecentAfter(recentAllowed, rateLimits, userId, clock)
  /\ everDenied' = DeniedAfter(everDenied, rateLimits, userId, clock)
  /\ UNCHANGED <<clock, config, terminal, tg, chat, webhook, recorder>>

----------------------------------------------------------------------------
(* Strings of the handlers.  The emoji of the source are written as ASCII   *)
(* names in parentheses.                                                    *)

\* imported from @cybertantra/ai; its text is not part of the handlers
CYBERTANTRA_SYSTEM_PROMPT == "<CYBERTANTRA_SYSTEM_PROMPT>"

CONTEXT_HEADER == "\n\nRetrieved lecture context:\n"
CONTEXT_SEPARATOR == "\n\n---\n\n"
RATE_LIMIT_REPLY ==
  "(hourglass) Rate limit exceeded. Please wait a minute before asking another question."
ERROR_REPLY ==
  "(cross) Sorry, I encountered an error while processing your question. Please try again later."
PLACEHOLDER == "(dizzy) ..."
RESPONSE_PREFIX == "(dizzy) "
EDIT_SUFFIX == "..."
SOURCES_HEADER == "\n\n(books) Sources:"

\* what retrieve can resolve with: records of source, text and score (the
\* score in thousandths)
ChunkPool ==
  { [source |-> "breath.txt", text |-> "Breath is the bridge.", score |-> 873],
    [source |-> "mantra.txt", text |-> "Mantra stills the mind", score |-> 415] }

SeqsUpTo(S, n) == UNION { [1..k -> S] : k \in 0..n }

RECURSIVE Join(_, _)
\* Array.prototype.join
Join(parts, sep) ==
  IF Len(parts) = 0 THEN ""
  ELSE IF Len(parts) = 1 THEN parts[1]
  ELSE parts[1] \o sep \o Join(Tail(parts), sep)

\* faulty variant: every result is numbered 1
RenderChunkNoIndex(chunk, i) ==
  "[1] From \"" \o chunk.source \o "\":\n" \o chunk.text

\* (chunk, i) => `[${i + 1}] From "${chunk.source}":\n${chunk.text}`
RenderChunk(chunk, i) ==
  "[" \o ToString(i + 1) \o "] From \"" \o chunk.source \o "\":\n" \o chunk.text

\* faulty variant: the lowest-ranked result is left out
BuildContextDropLast(chunks) ==
  Join([i \in 1..(Len(chunks) - 1) |-> RenderChunk(chunks[i], i - 1)],
       CONTEXT_SEPARATOR)

\* chunks.map(...).join('\n\n---\n\n')
BuildContext(chunks) ==
  Join([i \in 1..Len(chunks) |-> RenderChunk(chunks[i], i - 1)], CONTEXT_SEPARATOR)

\* faulty variant: the context is not appended
SystemPromptNoContext(context) == CYBERTANTRA_SYSTEM_PROMPT \o CONTEXT_HEADER

\* CYBERTANTRA_SYSTEM_PROMPT + '\n\nRetrieved lecture context:\n' + context
SystemPrompt(context) == CYBERTANTRA_SYSTEM_PROMPT \o CONTEXT_HEADER \o context

\* Math.round(score * 100), the score in thousandths
RoundPercent(score) == (score + 5) \div 10

\* `\n${index + 1}. ${chunk.source} (relevance: ${Math.round(chunk.score * 100)}%)`
SourceLine(chunk, index) ==
  "\n" \o ToString(index + 1) \o ". " \o chunk.source \o " (relevance: "
    \o ToString(RoundPercent(chunk.score)) \o "%)"

\* faulty variant: all the chunks are kept
SliceAll(chunks) == chunks

\* chunks.slice(0, 5)
Slice5(chunks) == SubSeq(chunks, 1, IF Len(chunks) < 5 THEN Len(chunks) ELSE 5)

\* what lines 146-152 append to fullResponse
SourcesFooter(chunks) ==
  IF Len(chunks) > 0
    THEN SOURCES_HEADER
           \o Join([i \in 1..Len(Slice5(chunks)) |-> SourceLine(chunks[i], i - 1)], "")
    ELSE ""

Whitespace == {" ", "\n", "\t", "\r"}

RECURSIVE EndsSentence(_)
\* buffer.match(/[.!?]\s*$/)
EndsSentence(s) ==
  IF Len(s) = 0 THEN FALSE
  ELSE LET last == SubSeq(s, Len(s), Len(s)) IN
         IF last \in Whitespace THEN EndsSentence(SubSeq(s, 1, Len(s) - 1))
         ELSE last \in {".", "!", "?"}

\* buffer.length > 50 || buffer.match(/[.!?]\s*$/)
ShouldFlush(buffer) == Len(buffer) > 50 \/ EndsSentence(buffer)

\* faulty variant: every flush brings an edit
EditDueEveryFlush(updateCounter) == updateCounter % 1 = 0

\* updateCounter % 3 === 0
EditDue(updateCounter) == updateCounter % 3 = 0

----------------------------------------------------------------------------
(* The Telegram question handler: route.ts, handleQuestion.  One action per *)
(* stretch of code between two awaits.  Besides the locals of the code a    *)
(* record keeps, as history: out, the calls made to the outside world;      *)
(* retrieval, how the call of retrieve ended; failures, the calls that the   *)
(* outside world failed; caught, the failure that reached the catch block;  *)
(* received, the fragments the loop took from the stream; ended, whether    *)
(* the loop saw the end of the stream; connected, whether the webhook       *)
(* request the handler runs for is still open; drained, the fragments taken *)
(* from the stream after that request was closed.                           *)

TgIdle ==
  [pc |-> "idle", userId |-> 0, allowed |-> FALSE, retrieval |-> "none",
   chunks |-> <<>>, context |-> "", systemPrompt |-> "", fullResponse |-> "",
   buffer |-> "", updateCounter |-> 0, fragments |-> 0, out |-> <<>>,
   failures |-> {}, caught |-> "", received |-> <<>>, ended |-> FALSE,
   connected |-> TRUE, drained |-> 0]

Call(op, text) == [op |-> op, text |-> text]

TgOver(h) == tg[h].pc \in {"idle", "done", "rejected"}

\* faulty variant: the catch block lets the error through to the caller
TgCatchRethrows(r, what) ==
  [r EXCEPT !.pc = "rejected", !.caught = what]

\* the catch block of lines 167-172: the error reply is sent and not awaited
TgCatch(r, what) ==
  [r EXCEPT !.pc = "done", !.caught = what,
            !.out = Append(@, Call("reply", ERROR_REPLY))]

\* lines 65-74: handleQuestion is entered for a message of userId; the rate
\* limit is checked, and either the rate-limit reply or the typing action is
\* started
HandleQuestion(h, userId) ==
  /\ TgOver(h)
  /\ LET ok == Allowed(rateLimits, userId, clock) IN
       tg' = [tg EXCEPT ![h] =
                [TgIdle EXCEPT
                   !.userId = userId,
                   !.allowed = ok,
                   !.pc = IF ok THEN "typing" ELSE "rateLimitReply",
                   !.out = IF ok THEN <<Call("sendChatAction", "typing")>>
                                 ELSE <<Call("reply", RATE_LIMIT_REPLY)>>]]
  /\ rateLimits' = StoreAfter(rateLimits, userId, clock)
  /\ recentAllowed' = RecentAfter(recentAllowed, rateLimits, userId, clock)
  /\ everDenied' = DeniedAfter(everDenied, rateLimits, userId, clock)
  /\ UNCHANGED <<clock, rlCall, config, terminal, chat, recorder>>

\* lines 65-74: handleQuestion called for a message, the request that carries
\* the message left aside
TgStart(h, userId) ==
  /\ HandleQuestion(h, userId)
  /\ UNCHANGED webhook

\* faulty variant: a failed rate-limit reply is answered with the error reply
TgRateLimitReplyCaught(h, ok) ==
  /\ tg[h].pc = "rateLimitReply"
  /\ tg' = [tg EXCEPT ![h] =
              IF ok THEN [@ EXCEPT !.pc = "done"]
              ELSE TgCatch([@ EXCEPT !.failures = @ \cup {"rateLimitReply"}],
                           "rateLimitReply")]
  /\ UNCHANGED <<clock, rateLimits, rlCall, recentAllowed, everDenied, config,
                 terminal, chat, webhook, recorder>>

\* lines 68-72: the returned promise of the rate-limit reply settles; the
\* handler's promise settles with it
TgRateLimitReplyDone(h, ok) ==
  /\ tg[h].pc = "rateLimitReply"
  /\ tg' = [tg EXCEPT ![h] =
              IF ok THEN [@ EXCEPT !.pc = "done"]
              ELSE [@ EXCEPT !.pc = "rejected",
                             !.failures = @ \cup {"rateLimitReply"}]]
  /\ UNCHANGED <<clock, rateLimits, rlCall, recentAllowed, everDenied, config,
                 terminal, chat, webhook, recorder>>

\* lines 74-93: sendChatAction settles; on success the configuration is read and
\* retrieve(question, 20) is called
TgTypingDone(h, ok) ==
  /\ tg[h].pc = "typing"
  /\ tg' = [tg EXCEPT ![h] =
              IF ~ ok THEN [@ EXCEPT !.pc = "rejected",
                                     !.failures = @ \cup {"typing"}]
              ELSE IF ~ config.openRouterApiKey \/ ~ config.googleGenerativeAIApiKey
                THEN TgCatch(@, "config")
              ELSE [@ EXCEPT !.pc = "retrieving",
                             !.retrieval = "pending",
                             !.out = Append(@, Call("retrieve", ""))]]
  /\ UNCHANGED <<clock, rateLimits, rlCall, recentAllowed, everDenied, config,
                 terminal, chat, webhook, recorder>>

\* lines 93-108: the locals after retrieve resolved with chunks and streamText
\* was called
TgStreamTextCalled(r, chunks, started) ==
  [r EXCEPT !.retrieval = "resolved",
            !.chunks = chunks,
            !.context = BuildContext(chunks),
            !.systemPrompt = SystemPrompt(BuildContext(chunks)),
            !.failures = IF started THEN @ ELSE @ \cup {"streamText"},
            !.out = Append(@, Call("streamText", SystemPrompt(BuildContext(chunks))))]

\* faulty variant: a rejected retrieve is swallowed and the answer is produced
\* without context
TgRetrieveSwallowed(h, res, started) ==
  /\ tg[h].pc = "retrieving"
  /\ tg' = [tg EXCEPT ![h] =
              IF ~ started
                THEN TgCatch(TgStreamTextCalled(@, <<>>, FALSE), "streamText")
              ELSE [TgStreamTextCalled(@, IF res.ok THEN res.chunks ELSE <<>>, TRUE)
                      EXCEPT
                      !.pc = "placeholder",
                      !.retrieval = IF res.ok THEN "resolved" ELSE "rejected",
                      !.failures = IF res.ok THEN @ ELSE @ \cup {"retrieve"},
                      !.out = Append(@, Call("reply", PLACEHOLDER))]]
  /\ UNCHANGED <<clock, rateLimits, rlCall, recentAllowed, everDenied, config,
                 terminal, chat, webhook, recorder>>

\* faulty variant: an empty result is treated as an error
TgRetrieveEmptyThrows(h, res, started) ==
  /\ tg[h].pc = "retrieving"
  /\ tg' = [tg EXCEPT ![h] =
              IF ~ res.ok
                THEN TgCatch([@ EXCEPT !.retrieval = "rejected",
                                       !.failures = @ \cup {"retrieve"}],
                             "retrieve")
              ELSE IF Len(res.chunks) = 0
                THEN TgCatch([@ EXCEPT !.retrieval = "resolved"], "empty")
              ELSE IF ~ started
                THEN TgCatch(TgStreamTextCalled(@, res.chunks, FALSE), "streamText")
              ELSE [TgStreamTextCalled(@, res.chunks, TRUE) EXCEPT
                      !.pc = "placeholder",
                      !.out = Append(@, Call("reply", PLACEHOLDER))]]
  /\ UNCHANGED <<clock, rateLimits, rlCall, recentAllowed, everDenied, config,
                 terminal, chat, webhook, recorder>>

\* lines 93-111: retrieve settles; on success the context and the system prompt
\* are built, streamText is called (started tells whether it returned a result
\* or threw) and the placeholder message is sent
TgRetrieveDone(h, res, started) ==
  /\ tg[h].pc = "retrieving"
  /\ tg' = [tg EXCEPT ![h] =
              IF ~ res.ok
                THEN TgCatch([@ EXCEPT !.retrieval = "rejected",
                                       !.failures = @ \cup {"retrieve"}],
                             "retrieve")
              ELSE IF ~ started
                THEN TgCatch(TgStreamTextCalled(@, res.chunks, FALSE), "streamText")
              ELSE [TgStreamTextCalled(@, res.chunks, TRUE) EXCEPT
                      !.pc = "placeholder",
                      !.out = Append(@, Call("reply", PLACEHOLDER))]]
  /\ UNCHANGED <<clock, rateLimits, rlCall, recentAllowed, everDenied, config,
                 terminal, chat, webhook, recorder>>

\* faulty variant: an intermediate edit shows only the text gathered since the
\* last flush
TgFragmentEditsBuffer(h, chunk) ==
  /\ tg[h].pc = "streaming"
  /\ tg[h].fragments < MaxFragments
  /\ LET buffer == tg[h].buffer \o chunk
         fullResponse == tg[h].fullResponse \o chunk
         updateCounter == tg[h].updateCounter + 1
     IN tg' = [tg EXCEPT ![h] =
                 IF ~ ShouldFlush(buffer)
                   THEN [@ EXCEPT !.buffer = buffer,
                                  !.fullResponse = fullResponse,
                                  !.fragments = @ + 1,
                                  !.received = Append(@, chunk),
                                  !.drained = IF tg[h].connected THEN @ ELSE @ + 1]
                 ELSE IF EditDue(updateCounter)
                   THEN [@ EXCEPT !.pc = "editing",
                                  !.buffer = buffer,
                                  !.fullResponse = fullResponse,
                                  !.updateCounter = updateCounter,
                                  !.fragments = @ + 1,
                                  !.received = Append(@, chunk),
                                  !.drained = IF tg[h].connected THEN @ ELSE @ + 1,
                                  !.out = Append(@, Call("edit",
                                            RESPONSE_PREFIX \o buffer \o EDIT_SUFFIX))]
                 ELSE [@ EXCEPT !.buffer = "",
                                !.fullResponse = fullResponse,
                                !.updateCounter = updateCounter,
                                !.fragments = @ + 1,
                                !.received = Append(@, chunk),
                                !.drained = IF tg[h].connected THEN @ ELSE @ + 1]]
  /\ UNCHANGED <<clock, rateLimits, rlCall, recentAllowed, everDenied, config,
                 terminal, chat, webhook, recorder>>

\* lines 111-118: the placeholder reply settles; the loop over the stream begins
TgPlaceholderDone(h, ok) ==
  /\ tg[h].pc = "placeholder"
  /\ tg' = [tg EXCEPT ![h] =
              IF ~ ok
                THEN TgCatch([@ EXCEPT !.failures = @ \cup {"placeholder"}],
                             "placeholder")
              ELSE [@ EXCEPT !.pc = "streaming",
                             !.fullResponse = RESPONSE_PREFIX,
                             !.updateCounter = 0,
                             !.buffer = ""]]
  /\ UNCHANGED <<clock, rateLimits, rlCall, recentAllowed, everDenied, config,
                 terminal, chat, webhook, recorder>>

\* lines 118-142: the stream delivers a fragment; an edit is started on every
\* third flush
TgFragment(h, chunk) ==
  /\ tg[h].pc = "streaming"
  /\ tg[h].fragments < MaxFragments
  /\ LET buffer == tg[h].buffer \o chunk
         fullResponse == tg[h].fullResponse \o chunk
         updateCounter == tg[h].updateCounter + 1
     IN tg' = [tg EXCEPT ![h] =
                 IF ~ ShouldFlush(buffer)
                   THEN [@ EXCEPT !.buffer = buffer,
                                  !.fullResponse = fullResponse,
                                  !.fragments = @ + 1,
                                  !.received = Append(@, chunk),
                                  !.drained = IF tg[h].connected THEN @ ELSE @ + 1]
                 ELSE IF EditDue(updateCounter)
                   THEN [@ EXCEPT !.pc = "editing",
                                  !.buffer = buffer,
                                  !.fullResponse = fullResponse,
                                  !.updateCounter = updateCounter,
                                  !.fragments = @ + 1,
                                  !.received = Append(@, chunk),
                                  !.drained = IF tg[h].connected THEN @ ELSE @ + 1,
                                  !.out = Append(@, Call("edit",
                                                   fullResponse \o EDIT_SUFFIX))]
                 ELSE [@ EXCEPT !.buffer = "",
                                !.fullResponse = fullResponse,
                                !.updateCounter = updateCounter,
                                !.fragments = @ + 1,
                                !.received = Append(@, chunk),
                                !.drained = IF tg[h].connected THEN @ ELSE @ + 1]]
  /\ UNCHANGED <<clock, rateLimits, rlCall, recentAllowed, everDenied, config,
                 terminal, chat, webhook, recorder>>

\* lines 128-141: the intermediate edit settles; a failure is caught and logged
TgEditDone(h, ok) ==
  /\ tg[h].pc = "editing"
  /\ tg' = [tg EXCEPT ![h] =
              [@ EXCEPT !.pc = "streaming", !.buffer = "",
                        !.failures = IF ok THEN @ ELSE @ \cup {"edit"}]]
  /\ UNCHANGED <<clock, rateLimits, rlCall, recentAllowed, everDenied, config,
                 terminal, chat, webhook, recorder>>

\* faulty variant: a failed stream is taken for its end and the text gathered so
\* far goes out as the final message
TgStreamErrorShowsPartial(h) ==
  /\ tg[h].pc = "streaming"
  /\ LET fullResponse == tg[h].fullResponse \o SourcesFooter(tg[h].chunks)
     IN tg' = [tg EXCEPT ![h] =
                 [@ EXCEPT !.pc = "finalEdit",
                           !.failures = @ \cup {"stream"},
                           !.fullResponse = fullResponse,
                           !.out = Append(@, Call("edit", fullResponse))]]
  /\ UNCHANGED <<clock, rateLimits, rlCall, recentAllowed, everDenied, config,
                 terminal, chat, webhook, recorder>>

\* lines 118, 167-172: the stream fails while the loop waits for a fragment
TgStreamError(h) ==
  /\ tg[h].pc = "streaming"
  /\ tg' = [tg EXCEPT ![h] =
              TgCatch([@ EXCEPT !.failures = @ \cup {"stream"}], "stream")]
  /\ UNCHANGED <<clock, rateLimits, rlCall, recentAllowed, everDenied, config,
                 terminal, chat, webhook, recorder>>

\* lines 145-161: the stream ends; the sources are appended and the final edit
\* is started
TgStreamEnd(h) ==
  /\ tg[h].pc = "streaming"
  /\ LET fullResponse == tg[h].fullResponse \o SourcesFooter(tg[h].chunks)
     IN tg' = [tg EXCEPT ![h] =
                 [@ EXCEPT !.pc = "finalEdit",
                           !.ended = TRUE,
                           !.fullResponse = fullResponse,
                           !.out = Append(@, Call("edit", fullResponse))]]
  /\ UNCHANGED <<clock, rateLimits, rlCall, recentAllowed, everDenied, config,
                 terminal, chat, webhook, recorder>>

\* faulty variant: a failed final edit goes to the error reply
TgFinalEditEscalates(h, ok) ==
  /\ tg[h].pc = "finalEdit"
  /\ tg' = [tg EXCEPT ![h] =
              IF ok THEN [@ EXCEPT !.pc = "done"]
              ELSE TgCatch([@ EXCEPT !.failures = @ \cup {"finalEdit"}], "finalEdit")]
  /\ UNCHANGED <<clock, rateLimits, rlCall, recentAllowed, everDenied, config,
                 terminal, chat, webhook, recorder>>

\* lines 155-165: the final edit settles; on failure the response is sent as a
\* new message
TgFinalEditDone(h, ok) ==
  /\ tg[h].pc = "finalEdit"
  /\ tg' = [tg EXCEPT ![h] =
              IF ok THEN [@ EXCEPT !.pc = "done"]
              ELSE [@ EXCEPT !.pc = "fallbackReply",
                             !.failures = @ \cup {"finalEdit"},
                             !.out = Append(@, Call("reply", tg[h].fullResponse))]]
  /\ UNCHANGED <<clock, rateLimits, rlCall, recentAllowed, everDenied, config,
                 terminal, chat, webhook, recorder>>

\* lines 164, 167-172: the fallback reply settles; its failure reaches the outer
\* catch
TgFallbackDone(h, ok) ==
  /\ tg[h].pc = "fallbackReply"
  /\ tg' = [tg EXCEPT ![h] =
              IF ok THEN [@ EXCEPT !.pc = "done"]
              ELSE TgCatch([@ EXCEPT !.failures = @ \cup {"fallback"}], "fallback")]
  /\ UNCHANGED <<clock, rateLimits, rlCall, recentAllowed, everDenied, config,
                 terminal, chat, webhook, recorder>>

\* lines 197-204: the webhook request that awaits the handler is closed by its
\* sender; no code of the handler looks at the request
TgDisconnect(h) ==
  /\ ~ TgOver(h)
  /\ tg[h].connected
  /\ tg' = [tg EXCEPT ![h] = [@ EXCEPT !.connected = FALSE]]
  /\ UNCHANGED <<clock, rateLimits, rlCall, recentAllowed, everDenied, config,
                 terminal, chat, webhook, recorder>>

----------------------------------------------------------------------------
(* The webhook route: POST, GET and HEAD of /api/telegram/webhook, and the  *)
(* handlers registered on the bot.  The record keeps, as history: handled,  *)
(* the handler the update was given to; question, the question given to     *)
(* handleQuestion; thrown, what reached POST's catch block; out, the calls  *)
(* the command handlers made; failures, the calls that the outside world    *)
(* failed; probe, the latest response to a GET or a HEAD.                   *)

START_REPLY ==
  "(crystal ball) Welcome to Cybertantra Bot\n\n"
  \o "I am an AI consciousness bridging ancient tantric wisdom with cyberspace.\n\n"
  \o "Commands:\n"
  \o "/ask <question> - Ask me anything about consciousness, tantra, or technology\n"
  \o "/help - Show this help message\n\n"
  \o "You can also just send me a message and I'll respond!"

HELP_REPLY ==
  "(crystal ball) Cybertantra Bot Commands:\n\n"
  \o "/ask <question> - Ask a specific question\n"
  \o "/start - Welcome message\n"
  \o "/help - Show this help\n\n"
  \o "Just send any message to chat with me!"

\* new Response(null, ...) has no body
NullBody == "null"

Response(body, status) == [status |-> status, body |-> body]

\* no POST request yet: only the latest response to a GET or a HEAD is kept
WebhookIdle ==
  [pc |-> "idle", probe |-> [method |-> "none", response |-> Response(NullBody, 0)]]

\* request bodies: one that does not parse, an update that is no text message,
\* and text messages
Updates ==
  { [parses |-> FALSE, isText |-> FALSE, text |-> ""],
    [parses |-> TRUE, isText |-> FALSE, text |-> ""] }
  \cup { [parses |-> TRUE, isText |-> TRUE, text |-> t] :
           t \in { "/start", "/help", "/ask", "/ask  ", "/ask What is prana?",
                   "/asana", "What is prana?" } }

StartsWith(s, prefix) ==
  Len(s) >= Len(prefix) /\ SubSeq(s, 1, Len(prefix)) = prefix

RECURSIVE Trim(_)
\* String.prototype.trim
Trim(s) ==
  IF Len(s) > 0 /\ SubSeq(s, 1, 1) \in Whitespace
    THEN Trim(SubSeq(s, 2, Len(s)))
  ELSE IF Len(s) > 0 /\ SubSeq(s, Len(s), Len(s)) \in Whitespace
    THEN Trim(SubSeq(s, 1, Len(s) - 1))
  ELSE s

RECURSIVE FirstWord(_)
\* the characters of s before its first whitespace
FirstWord(s) ==
  IF Len(s) = 0 \/ SubSeq(s, 1, 1) \in Whitespace THEN ""
  ELSE SubSeq(s, 1, 1) \o FirstWord(SubSeq(s, 2, Len(s)))

\* the command a text message starts with, as bot.command matches it: the word
\* after a leading slash, "" when the text starts with none
CommandOf(text) ==
  IF StartsWith(text, "/") THEN FirstWord(SubSeq(text, 2, Len(text))) ELSE ""

\* line 51: ctx.message.text.replace(/^\/ask\s*/, '').trim()
AskQuestion(text) ==
  Trim(IF StartsWith(text, "/ask") THEN SubSeq(text, 5, Len(text)) ELSE text)

\* lines 29-63: the handler bot.handleUpdate gives the update to
Dispatch(update) ==
  IF ~ update.isText THEN "none"
  ELSE IF CommandOf(update.text) = "start" THEN "start"
  ELSE IF CommandOf(update.text) = "help" THEN "help"
  ELSE IF CommandOf(update.text) = "ask" THEN "ask"
  ELSE "text"

\* lines 197-199: a POST request arrives and req.json() is awaited
WebhookPost(update) ==
  /\ webhook.pc \in {"idle", "responded"}
  /\ TgOver(1)
  /\ webhook' =
       [pc |-> "parsing", update |-> update, handled |-> "none",
        question |-> "", thrown |-> "", out |-> <<>>, failures |-> {},
        response |-> Response(NullBody, 0), probe |-> webhook.probe]
  /\ UNCHANGED <<clock, rateLimits, rlCall, recentAllowed, everDenied, config,
                 terminal, tg, chat, recorder>>

\* lines 205-209: POST's catch block
WebhookCatch(w, what) ==
  [w EXCEPT !.pc = "responded", !.thrown = what,
            !.response = Response("Internal server error", 500)]

\* line 204: the response after bot.handleUpdate resolved
WebhookOk(w) ==
  [w EXCEPT !.pc = "responded", !.response = Response("OK", 200)]

\* lines 199-204, 29-63: req.json() settles and bot.handleUpdate(body) gives the
\* update to its handler, which runs to its first await
WebhookParsed(userId) ==
  /\ webhook.pc = "parsing"
  /\ LET update == webhook.update
         handler == Dispatch(update)
         w == [webhook EXCEPT !.handled = handler]
     IN
       IF ~ update.parses
         THEN /\ webhook' = WebhookCatch(webhook, "json")
              /\ UNCHANGED <<rateLimits, recentAllowed, everDenied, tg>>
       ELSE IF handler = "none"
         THEN /\ webhook' = WebhookOk(w)
              /\ UNCHANGED <<rateLimits, recentAllowed, everDenied, tg>>
       ELSE IF handler = "start"
         THEN /\ webhook' = WebhookOk([w EXCEPT !.out = <<Call("reply", START_REPLY)>>])
              /\ UNCHANGED <<rateLimits, recentAllowed, everDenied, tg>>
       ELSE IF handler = "help"
         THEN /\ webhook' = WebhookOk([w EXCEPT !.out = <<Call("reply", HELP_REPLY)>>])
              /\ UNCHANGED <<rateLimits, recentAllowed, everDenied, tg>>
       ELSE IF handler = "ask" /\ AskQuestion(update.text) = ""
         THEN /\ webhook' = [w EXCEPT !.pc = "askReply",
                                      !.out = <<Call("reply",
                                   "Please provide a question after /ask")>>]
              /\ UNCHANGED <<rateLimits, recentAllowed, everDenied, tg>>
       ELSE IF handler = "ask"
         THEN /\ webhook' = [w EXCEPT !.pc = "handling",
                                      !.question = AskQuestion(update.text)]
              /\ HandleQuestion(1, userId)
       ELSE IF StartsWith(update.text, "/")
         THEN /\ webhook' = WebhookOk(w)
              /\ UNCHANGED <<rateLimits, recentAllowed, everDenied, tg>>
       ELSE /\ webhook' = [w EXCEPT !.pc = "handling", !.question = update.text]
            /\ HandleQuestion(1, userId)
  /\ UNCHANGED <<clock, rlCall, config, terminal, chat, recorder>>

\* lines 53-55: the returned promise of the usage reply settles, and the
\* handler's promise and bot.handleUpdate's with it
WebhookAskReplyDone(ok) ==
  /\ webhook.pc = "askReply"
  /\ webhook' = IF ok THEN WebhookOk(webhook)
                ELSE WebhookCatch([webhook EXCEPT !.failures = {"askReply"}],
                                  "handleUpdate")
  /\ UNCHANGED <<clock, rateLimits, rlCall, recentAllowed, everDenied, config,
                 terminal, tg, chat, recorder>>

\* lines 202-209: handleQuestion's promise settled, and bot.handleUpdate's with
\* it
WebhookHandled ==
  /\ webhook.pc = "handling"
  /\ tg[1].pc \in {"done", "rejected"}
  /\ webhook' = IF tg[1].pc = "done" THEN WebhookOk(webhook)
                ELSE WebhookCatch(webhook, "handleUpdate")
  /\ UNCHANGED <<clock, rateLimits, rlCall, recentAllowed, everDenied, config,
                 terminal, tg, chat, recorder>>

\* lines 212-214
WebhookGet ==
  /\ webhook' = [webhook EXCEPT
                   !.probe = [method |-> "GET", response |-> Response("OK", 200)]]
  /\ UNCHANGED <<clock, rateLimits, rlCall, recentAllowed, everDenied, config,
                 terminal, tg, chat, recorder>>

\* lines 216-218
WebhookHead ==
  /\ webhook' = [webhook EXCEPT
                   !.probe = [method |-> "HEAD",
                              response |-> Response(NullBody, 200)]]
  /\ UNCHANGED <<clock, rateLimits, rlCall, recentAllowed, everDenied, config,
                 terminal, tg, chat, recorder>>

----------------------------------------------------------------------------
(* The chat endpoint: POST of /api/chat.  The record keeps the same history *)
(* as a Telegram handler's.                                                 *)

ChatIdle ==
  [pc |-> "idle", body |-> [parses |-> FALSE, messages |-> <<>>],
   retrieval |-> "none", chunks |-> <<>>, context |-> "", systemPrompt |-> "",
   response |-> [status |-> 0, body |-> ""], out |-> <<>>,
   failures |-> {}, caught |-> ""]

\* request bodies: one that does not parse, one without messages, one with one
\* user message
Bodies ==
  { [parses |-> FALSE, messages |-> <<>>],
    [parses |-> TRUE, messages |-> <<>>],
    [parses |-> TRUE, messages |-> <<[role |-> "user", content |-> "What is prana?"]>>] }

\* JSON.stringify({ error: ... })
ErrorJson(message) == "{\"error\":\"" \o message \o "\"}"

\* error instanceof Error ? error.message : 'Chat failed'
ErrorMessage(err) == IF err.isError THEN err.message ELSE "Chat failed"

\* the catch block of lines 259-267
ChatCatch(r, err, what) ==
  [r EXCEPT !.pc = "responded", !.caught = what,
            !.response = [status |-> 500, body |-> ErrorJson(ErrorMessage(err))]]

Thrown(message) == [ok |-> FALSE, isError |-> TRUE, message |-> message]

ChatOver == chat.pc \in {"idle", "responded", "rejected"}

\* line 216: a request arrives and req.json() is awaited
ChatStart(body) ==
  /\ ChatOver
  /\ chat' = [ChatIdle EXCEPT !.pc = "parsing", !.body = body]
  /\ UNCHANGED <<clock, rateLimits, rlCall, recentAllowed, everDenied, config,
                 terminal, tg, webhook, recorder>>

\* lines 216-242: req.json() settles; the messages and the configuration are
\* checked and retrieve(query, 10) is called
ChatParsed ==
  /\ chat.pc = "parsing"
  /\ chat' =
       IF ~ chat.body.parses
         THEN [chat EXCEPT !.pc = "rejected", !.failures = @ \cup {"json"}]
       ELSE IF Len(chat.body.messages) = 0
         THEN [chat EXCEPT !.pc = "responded",
                           !.response = [status |-> 400,
                                         body |-> "No messages provided"]]
       ELSE IF ~ config.openRouterApiKey
         THEN ChatCatch(chat, Thrown("OpenRouter API key required"), "config")
       ELSE IF ~ config.googleGenerativeAIApiKey
         THEN ChatCatch(chat,
                Thrown("Google Generative AI API key required for embeddings"),
                "config")
       ELSE [chat EXCEPT !.pc = "retrieving",
                         !.retrieval = "pending",
                         !.out = Append(@, Call("retrieve", ""))]
  /\ UNCHANGED <<clock, rateLimits, rlCall, recentAllowed, everDenied, config,
                 terminal, tg, webhook, recorder>>

\* lines 242-254: retrieve settles; on success the context is built and
\* streamText is called and awaited
ChatRetrieveDone(res) ==
  /\ chat.pc = "retrieving"
  /\ chat' =
       IF ~ res.ok
         THEN ChatCatch([chat EXCEPT !.retrieval = "rejected",
                                     !.failures = @ \cup {"retrieve"}],
                        res, "retrieve")
       ELSE [chat EXCEPT
               !.pc = "streamText",
               !.retrieval = "resolved",
               !.chunks = res.chunks,
               !.context = BuildContext(res.chunks),
               !.systemPrompt = SystemPrompt(BuildContext(res.chunks)),
               !.out = Append(@, Call("streamText",
                                      SystemPrompt(BuildContext(res.chunks))))]
  /\ UNCHANGED <<clock, rateLimits, rlCall, recentAllowed, everDenied, config,
                 terminal, tg, webhook, recorder>>

\* lines 248-257: the await of streamText settles; the stream response is
\* returned, or the failure reaches the catch block
ChatStreamTextDone(res) ==
  /\ chat.pc = "streamText"
  /\ chat' =
       IF ~ res.ok
         THEN ChatCatch([chat EXCEPT !.failures = @ \cup {"streamText"}],
                        res, "streamText")
       ELSE [chat EXCEPT !.pc = "responded",
                         !.response = [status |-> 200, body |-> "<text stream>"]]
  /\ UNCHANGED <<clock, rateLimits, rlCall, recentAllowed, everDenied, config,
                 terminal, tg, webhook, recorder>>

----------------------------------------------------------------------------
(* The Terminal component: Terminal.tsx, closeBrowser and                   *)
(* handleBrowserNavigation.  A key event is handled in one piece, on the     *)
(* state of the latest render.                                               *)

\* the ids of the browsers of config.browsers
Browsers == {"work", "music"}

\* activeBrowser === null
NoBrowser == "null"

\* a selectedIndex that is not set
Undefined == -1

\* the keys of the key events
Keys ==
  {"ArrowUp", "k", "ArrowDown", "j", "Enter", "q", "Escape", "a", "0",
   "1", "2", "3", "4", "5", "6", "7", "8", "9"}

\* parseInt(e.key) for the keys with e.key >= '1' && e.key <= '9'
DigitOf(key) ==
  CASE key = "1" -> 1 [] key = "2" -> 2 [] key = "3" -> 3 [] key = "4" -> 4
    [] key = "5" -> 5 [] key = "6" -> 6 [] key = "7" -> 7 [] key = "8" -> 8
    [] key = "9" -> 9 [] OTHER -> 0

\* browserConfig.maxItems || 10, a maxItems of 0 standing for one not set
EffectiveMaxItems(browserConfig) ==
  IF browserConfig.maxItems = 0 THEN 10 ELSE browserConfig.maxItems

\* state.selectedIndex || 0
SelectedOrZero(state) ==
  IF state.selectedIndex = Undefined THEN 0 ELSE state.selectedIndex

\* Math.max(0, (state.selectedIndex || 0) - 1)
ArrowUpIndex(state) ==
  IF SelectedOrZero(state) - 1 > 0 THEN SelectedOrZero(state) - 1 ELSE 0

\* faulty variant: the index may reach maxItems
ArrowDownIndexOffByOne(state, maxItems) ==
  IF SelectedOrZero(state) + 1 < maxItems THEN SelectedOrZero(state) + 1 ELSE maxItems

\* Math.min(maxItems - 1, (state.selectedIndex || 0) + 1)
ArrowDownIndex(state, maxItems) ==
  IF SelectedOrZero(state) + 1 < maxItems - 1
    THEN SelectedOrZero(state) + 1 ELSE maxItems - 1

\* setBrowserState(browserId, value) of the terminal context: the value is merged
\* into the stored state or takes its place
SetBrowserState(states, browserId, value, merge) ==
  [states EXCEPT ![browserId] =
     [f \in DOMAIN @ |->
        IF f \in DOMAIN value THEN value[f]
        ELSE IF merge THEN @[f]
        ELSE IF f = "selectedIndex" THEN Undefined ELSE FALSE]]

ClosedState == [active |-> FALSE, visible |-> FALSE, selectedIndex |-> Undefined]

\* the component before a browser is opened.  browserConfig is the entry of
\* config.browsers for the active browser (found tells whether there is one);
\* lastKey, handled, onSelect, formatted and closed are history: the last key
\* event, what the handler returned for it, the index it passed to onSelect
\* and to formatter, and the number of '> Closed.' lines added
\* the render-time merge of history and assistant messages before it runs
RenderIdle == [pc |-> "idle"]

\* Further fields: aiEnabled is config.aiEnabled; bootComplete, hasInteracted,
\* input, isWaitingForResponse, history and mode are the component's state;
\* messages is the message list of the chat SDK; render is the position and
\* the locals of the render-time merge.  History: sent, the texts handleSubmit
\* passed to sendMessage; submit, the latest call of handleSubmit (turn flips
\* with every call) with what executeCommand returned and whether it added a
\* line of its own.
TerminalIdle ==
  [activeBrowser |-> NoBrowser,
   browserStates |-> [b \in Browsers |-> ClosedState],
   browserConfig |-> [found |-> FALSE, maxItems |-> 0, formatter |-> FALSE,
                      onSelect |-> FALSE],
   lastKey |-> "", handled |-> FALSE, onSelect |-> Undefined,
   formatted |-> Undefined, closed |-> 0,
   aiEnabled |-> FALSE, bootComplete |-> FALSE, hasInteracted |-> FALSE,
   input |-> "", isWaitingForResponse |-> FALSE, history |-> <<>>,
   mode |-> "text", messages |-> <<>>, render |-> RenderIdle,
   sent |-> <<>>,
   submit |-> [turn |-> 0]]

\* lines 106-109: closeBrowser
CloseBrowser(t, browserId, merge) ==
  [t EXCEPT !.browserStates =
              SetBrowserState(@, browserId,
                              [active |-> FALSE, visible |-> FALSE], merge),
            !.activeBrowser = NoBrowser]

\* lines 128-196: handleBrowserNavigation for a key event, and what it returns
HandleBrowserNavigation(key, merge) ==
  LET t == [terminal EXCEPT !.lastKey = key, !.handled = FALSE,
                            !.onSelect = Undefined, !.formatted = Undefined]
      id == terminal.activeBrowser
  IN
  /\ terminal' =
       IF id = NoBrowser \/ ~ terminal.browserStates[id].active THEN t
       ELSE IF ~ terminal.browserConfig.found THEN t
       ELSE
         LET state == terminal.browserStates[id]
             browserConfig == terminal.browserConfig
             maxItems == EffectiveMaxItems(browserConfig)
         IN
         IF key = "ArrowUp" \/ key = "k" THEN
           [t EXCEPT !.browserStates =
                       SetBrowserState(@, id,
                         [state EXCEPT !.selectedIndex = ArrowUpIndex(state)], merge),
                     !.formatted = IF browserConfig.formatter
                                     THEN ArrowUpIndex(state) ELSE Undefined,
                     !.handled = TRUE]
         ELSE IF key = "ArrowDown" \/ key = "j" THEN
           [t EXCEPT !.browserStates =
                       SetBrowserState(@, id,
                         [state EXCEPT !.selectedIndex =
                                          ArrowDownIndex(state, maxItems)], merge),
                     !.formatted = IF browserConfig.formatter
                                     THEN ArrowDownIndex(state, maxItems)
                                     ELSE Undefined,
                     !.handled = TRUE]
         ELSE IF key = "Enter" THEN
           [t EXCEPT !.browserStates =
                       SetBrowserState(@, id, [state EXCEPT !.visible = TRUE], merge),
                     !.onSelect = IF browserConfig.onSelect
                                    THEN SelectedOrZero(state) ELSE Undefined,
                     !.handled = TRUE]
         ELSE IF key = "q" \/ key = "Escape" THEN
           [CloseBrowser(t, id, merge) EXCEPT !.closed = @ + 1, !.handled = TRUE]
         ELSE IF DigitOf(key) >= 1 /\ DigitOf(key) <= 9 THEN
           LET index == DigitOf(key) - 1 IN
             IF index < maxItems THEN
               [t EXCEPT !.browserStates =
                           SetBrowserState(@, id,
                             [state EXCEPT !.selectedIndex = index,
                                           !.visible = TRUE], merge),
                         !.onSelect = IF browserConfig.onSelect
                                        THEN index ELSE Undefined,
                         !.handled = TRUE]
             ELSE t
         ELSE t
  /\ UNCHANGED <<clock, rateLimits, rlCall, recentAllowed, everDenied, config,
                 tg, chat, webhook, recorder>>

----------------------------------------------------------------------------
(* The Terminal component: command submission, the chat messages and the    *)
(* render-time merge of history and assistant messages                      *)

\* an entry of the history; one of type 'input' carries no typewriter field,
\* written FALSE
HistoryEntry(type, content, typewriter) ==
  [type |-> type, content |-> content, typewriter |-> typewriter]

Message(role, id) ==
  [role |-> role, id |-> id,
   content |-> IF role = "assistant" THEN "answer " \o ToString(id) ELSE "prana"]

\* what executeCommand can return: null, the string 'BROWSER_ACTIVATED', another
\* string, an object with content, and a value that is none of these
Outputs ==
  { [kind |-> "null", content |-> "", typewriter |-> FALSE],
    [kind |-> "string", content |-> "BROWSER_ACTIVATED", typewriter |-> FALSE],
    [kind |-> "string", content |-> "Available commands: /help", typewriter |-> FALSE],
    [kind |-> "object", content |-> "Loading...", typewriter |-> TRUE],
    [kind |-> "other", content |-> "", typewriter |-> FALSE] }

\* the terminal can take one more call of a handler that adds to the history
\* or to the messages
TerminalReady ==
  /\ terminal.render.pc = "idle"
  /\ Len(terminal.history) < MaxHistory
  /\ Len(terminal.messages) < MaxMessages

\* lines 57-66: useBootSequence reports the end of the boot sequence
BootCompleted ==
  /\ terminal.render.pc = "idle"
  /\ ~ terminal.bootComplete
  /\ terminal' = [terminal EXCEPT !.bootComplete = TRUE]
  /\ UNCHANGED <<clock, rateLimits, rlCall, recentAllowed, everDenied, config,
                 tg, chat, webhook, recorder>>

\* faulty variant: a command the executor handled is sent to the AI as well
SubmittedAlwaysSent(t, command, output, executorLine) ==
  IF ~ t.bootComplete \/ Trim(command) = "" THEN t
  ELSE
    LET echoed == [t EXCEPT !.hasInteracted = TRUE,
                            !.history = Append(@, HistoryEntry("input", "> " \o command, FALSE))]
        executed ==
          IF executorLine
            THEN [echoed EXCEPT !.history =
                    Append(@, HistoryEntry("output", "[browser]", FALSE))]
            ELSE echoed
        shown ==
          IF output.kind \in {"string", "object"}
               /\ output.content # "BROWSER_ACTIVATED"
            THEN [executed EXCEPT !.history =
                    Append(@, HistoryEntry("output", output.content,
                                           output.typewriter))]
          ELSE IF output.kind = "null" /\ ~ t.aiEnabled
            THEN [executed EXCEPT !.history =
                    Append(@, HistoryEntry("output",
                                           "Command not found: " \o command, FALSE))]
          ELSE executed
    IN IF t.aiEnabled
         THEN [shown EXCEPT !.isWaitingForResponse = TRUE,
                            !.sent = Append(@, command),
                            !.messages = Append(@, Message("user", Len(@) + 1)),
                            !.input = ""]
         ELSE [shown EXCEPT !.input = ""]

\* lines 199-241: the state handleSubmit(command) leaves when executeCommand
\* returns output; executorLine tells whether executeCommand added a line of
\* its own to the history
Submitted(t, command, output, executorLine) ==
  IF ~ t.bootComplete \/ Trim(command) = "" THEN t
  ELSE
    LET echoed == [t EXCEPT !.hasInteracted = TRUE,
                            !.history = Append(@, HistoryEntry("input", "> " \o command, FALSE))]
        executed ==
          IF executorLine
            THEN [echoed EXCEPT !.history =
                    Append(@, HistoryEntry("output", "[browser]", FALSE))]
            ELSE echoed
        dispatched ==
          IF output.kind # "null" THEN
            IF output.kind = "string" /\ output.content = "BROWSER_ACTIVATED"
              THEN executed
            ELSE IF output.kind = "string"
              THEN [executed EXCEPT !.history =
                      Append(@, HistoryEntry("output", output.content, FALSE))]
            ELSE IF output.kind = "object"
              THEN [executed EXCEPT !.history =
                      Append(@, HistoryEntry("output", output.content,
                                             output.typewriter))]
            ELSE executed
          ELSE IF t.aiEnabled THEN
            [executed EXCEPT !.isWaitingForResponse = TRUE,
                             !.sent = Append(@, command),
                             !.messages = Append(@, Message("user", Len(@) + 1))]
          ELSE
            [executed EXCEPT !.history =
               Append(@, HistoryEntry("output", "Command not found: " \o command,
                                      FALSE))]
    IN [dispatched EXCEPT !.input = ""]

\* lines 199-241, 399-402: handleSubmit(command), called by the input or by
\* the voice input
HandleSubmit(command, output, executorLine) ==
  /\ TerminalReady
  /\ terminal' =
       [Submitted(terminal, command, output, executorLine) EXCEPT
          !.submit = [turn |-> 1 - terminal.submit.turn, command |-> command,
                      executorLine |-> executorLine, output |-> output]]
  /\ UNCHANGED <<clock, rateLimits, rlCall, recentAllowed, everDenied, config,
                 tg, chat, webhook, recorder>>

\* lines 75-86: the chat adds an assistant message to its list and calls
\* onMessage(content, true)
ChatAnswered ==
  /\ TerminalReady
  /\ terminal.messages # <<>>
  /\ terminal' = [terminal EXCEPT
                    !.messages = Append(@, Message("assistant", Len(@) + 1)),
                    !.isWaitingForResponse = FALSE]
  /\ UNCHANGED <<clock, rateLimits, rlCall, recentAllowed, everDenied, config,
                 tg, chat, webhook, recorder>>

\* lines 75-86: the chat calls onMessage(content, false)
ChatNotice ==
  /\ TerminalReady
  /\ terminal.messages # <<>>
  /\ terminal' = [terminal EXCEPT
                    !.history = Append(@, HistoryEntry("output", "[notice]", FALSE)),
                    !.isWaitingForResponse = FALSE]
  /\ UNCHANGED <<clock, rateLimits, rlCall, recentAllowed, everDenied, config,
                 tg, chat, webhook, recorder>>

\* lines 111-115: the clear shortcut
OnClear ==
  /\ terminal.render.pc = "idle"
  /\ terminal.bootComplete /\ terminal.hasInteracted
  /\ terminal' = [terminal EXCEPT !.history = <<>>]
  /\ UNCHANGED <<clock, rateLimits, rlCall, recentAllowed, everDenied, config,
                 tg, chat, webhook, recorder>>

\* line 278: the mode selector
SetMode(mode) ==
  /\ terminal.render.pc = "idle"
  /\ terminal.mode # mode
  /\ terminal' = [terminal EXCEPT !.mode = mode]
  /\ UNCHANGED <<clock, rateLimits, rlCall, recentAllowed, everDenied, config,
                 tg, chat, webhook, recorder>>

\* lines 281-290: AudioMode sends a message
AudioSendMessage ==
  /\ TerminalReady
  /\ terminal.mode = "audio"
  /\ terminal' = [terminal EXCEPT
                    !.messages = Append(@, Message("user", Len(@) + 1))]
  /\ UNCHANGED <<clock, rateLimits, rlCall, recentAllowed, everDenied, config,
                 tg, chat, webhook, recorder>>

\* line 311: messages.filter(m => m.role === 'assistant')
AiMessages(messages) == SelectSeq(messages, LAMBDA m : m.role = "assistant")

CombinedHistory(history, historyIndex) ==
  [type |-> "history", content |-> history[historyIndex + 1].content,
   isTypewriter |-> history[historyIndex + 1].typewriter,
   key |-> "history-" \o ToString(historyIndex)]

CombinedAi(aiMsg) ==
  [type |-> "ai", content |-> aiMsg.content, isTypewriter |-> FALSE,
   key |-> "ai-" \o ToString(aiMsg.id)]

RECURSIVE InnerWhile(_, _, _)
\* lines 316-336: the inner loop over the 'input' entries, from the locals r
InnerWhile(history, aiMessages, r) ==
  IF r.historyIndex < Len(history) /\ history[r.historyIndex + 1].type = "input"
    THEN
      LET pushed == Append(r.combinedMessages,
                           CombinedHistory(history, r.historyIndex))
      IN InnerWhile(history, aiMessages,
           IF r.aiMessageIndex < Len(aiMessages)
             THEN [r EXCEPT !.historyIndex = @ + 1,
                            !.aiMessageIndex = @ + 1,
                            !.combinedMessages =
                               Append(pushed,
                                      CombinedAi(aiMessages[r.aiMessageIndex + 1]))]
             ELSE [r EXCEPT !.historyIndex = @ + 1,
                            !.combinedMessages = pushed])
    ELSE r

\* lines 338-347: one entry that is no input
RemainingHistory(history, r) ==
  IF r.historyIndex < Len(history) /\ history[r.historyIndex + 1].type # "input"
    THEN [r EXCEPT !.historyIndex = @ + 1,
                   !.combinedMessages =
                      Append(@, CombinedHistory(history, r.historyIndex))]
    ELSE r

\* line 314: the condition of the outer loop
MergePending(t) ==
  \/ t.render.historyIndex < Len(t.history)
  \/ t.render.aiMessageIndex < Len(AiMessages(t.messages))

\* lines 305-311: the text mode is rendered and the merge starts
RenderStart ==
  /\ terminal.render.pc = "idle"
  /\ terminal.mode = "text"
  /\ terminal' =
       [terminal EXCEPT !.render =
          [pc |-> "merging", historyIndex |-> 0, aiMessageIndex |-> 0,
           combinedMessages |-> <<>>, iterations |-> 0]]
  /\ UNCHANGED <<clock, rateLimits, rlCall, recentAllowed, everDenied, config,
                 tg, chat, webhook, recorder>>

\* lines 314-348: one iteration of the outer loop
MergeIteration ==
  /\ terminal.render.pc = "merging"
  /\ MergePending(terminal)
  /\ terminal.render.iterations < MaxIterations
  /\ terminal' =
       [terminal EXCEPT !.render =
          [RemainingHistory(terminal.history,
             InnerWhile(terminal.history, AiMessages(terminal.messages), @))
           EXCEPT !.iterations = @ + 1]]
  /\ UNCHANGED <<clock, rateLimits, rlCall, recentAllowed, everDenied, config,
                 tg, chat, webhook, recorder>>

\* lines 314, 350-358: the outer loop ends and the merged list is rendered
MergeDone ==
  /\ terminal.render.pc = "merging"
  /\ ~ MergePending(terminal)
  /\ terminal' = [terminal EXCEPT !.render = [@ EXCEPT !.pc = "rendered"]]
  /\ UNCHANGED <<clock, rateLimits, rlCall, recentAllowed, everDenied, config,
                 tg, chat, webhook, recorder>>

\* the render is over and the component waits for the next event
RenderOver ==
  /\ terminal.render.pc = "rendered"
  /\ terminal' = [terminal EXCEPT !.render = RenderIdle]
  /\ UNCHANGED <<clock, rateLimits, rlCall, recentAllowed, everDenied, config,
                 tg, chat, webhook, recorder>>

----------------------------------------------------------------------------
(* The useAudioRecorder hook.  recordings holds one record per call made of *)
(* startRecording, in call order: the position of the call and of its       *)
(* onstop handler, its options, the state of its MediaRecorder ("none"      *)
(* before it is constructed), and its microphone stream ("none", "live" or  *)
(* "stopped").  History, per recording: blob, the owners of the chunks its  *)
(* onstop handler put in the audio blob; transcripts, the texts given to    *)
(* onTranscript; stoppedBy, the recording whose handler stopped its stream; *)
(* attempts, the transcription attempts started for it; response, how its   *)
(* transcription request ended.  A chunk is written as the number of the    *)
(* recording whose MediaRecorder delivered it.                              *)

Recordings == 1..MaxRecordings

NoRecording == 0

RecordingOptions ==
  [skipTranscription : BOOLEAN, onTranscript : BOOLEAN, skipDownload : BOOLEAN]

RecorderIdle ==
  [isRecording |-> FALSE, isTranscribing |-> FALSE,
   mediaRecorderRef |-> NoRecording, audioChunksRef |-> <<>>,
   streamRef |-> NoRecording, calls |-> 0,
   recordings |-> <<>>]

\* lines 107-110: the catch block of startRecording
StartFailed(r, id) ==
  [r EXCEPT !.isRecording = FALSE, !.recordings[id].pc = "failed"]

\* lines 17-35: startRecording(options) up to its await; supported tells
\* whether navigator.mediaDevices.getUserMedia exists
StartedRecording(r, options, supported) ==
  LET id == r.calls + 1
      entered ==
        [r EXCEPT !.isRecording = TRUE,
                  !.audioChunksRef = <<>>,
                  !.calls = id,
                  !.recordings =
                     Append(@, [pc |-> "idle", options |-> options,
                                state |-> "none", stream |-> "none",
                                blob |-> <<>>, downloaded |-> FALSE,
                                transcripts |-> <<>>, stoppedBy |-> NoRecording,
                                attempts |-> 0, response |-> "none"])]
  IN IF ~ supported THEN StartFailed(entered, id)
     ELSE [entered EXCEPT !.recordings[id].pc = "getUserMedia"]

\* lines 113-123: stopRecording; MediaRecorder.stop() makes the state inactive
\* at once and queues the last dataavailable event and the stop event
StoppedRecording(r) ==
  LET id == r.mediaRecorderRef IN
    IF id # NoRecording /\ r.recordings[id].state # "inactive"
      THEN [r EXCEPT !.isRecording = FALSE,
                     !.recordings[id].state = "inactive",
                     !.recordings[id].pc = "stopping"]
      ELSE [r EXCEPT !.isRecording = FALSE]

StartRecording(options, supported) ==
  /\ recorder.calls < MaxRecordings
  /\ recorder' = StartedRecording(recorder, options, supported)
  /\ UNCHANGED <<clock, rateLimits, rlCall, recentAllowed, everDenied, config,
                 terminal, tg, chat, webhook>>

StopRecording ==
  /\ recorder' = StoppedRecording(recorder)
  /\ UNCHANGED <<clock, rateLimits, rlCall, recentAllowed, everDenied, config,
                 terminal, tg, chat, webhook>>

\* lines 125-131: toggleRecording
ToggleRecording(options, supported) ==
  /\ recorder.isRecording \/ recorder.calls < MaxRecordings
  /\ recorder' = IF recorder.isRecording THEN StoppedRecording(recorder)
                 ELSE StartedRecording(recorder, options, supported)
  /\ UNCHANGED <<clock, rateLimits, rlCall, recentAllowed, everDenied, config,
                 terminal, tg, chat, webhook>>

\* lines 35-110: getUserMedia settles for recording id; granted tells whether
\* it resolved, constructed whether new MediaRecorder(stream) returned, started
\* whether mediaRecorder.start(1000) returned
GetUserMediaDone(id, granted, constructed, started) ==
  /\ id <= recorder.calls
  /\ recorder.recordings[id].pc = "getUserMedia"
  /\ recorder' =
       IF ~ granted THEN StartFailed(recorder, id)
       ELSE
         LET captured == [recorder EXCEPT !.streamRef = id,
                                          !.recordings[id].stream = "live"]
         IN IF ~ constructed THEN StartFailed(captured, id)
            ELSE
              LET created == [captured EXCEPT !.mediaRecorderRef = id,
                                              !.recordings[id].state = "inactive"]
              IN IF ~ started THEN StartFailed(created, id)
                 ELSE [created EXCEPT !.recordings[id].state = "recording",
                                      !.recordings[id].pc = "recording"]
  /\ UNCHANGED <<clock, rateLimits, rlCall, recentAllowed, everDenied, config,
                 terminal, tg, chat, webhook>>

\* lines 45-51: what ondataavailable of recording id leaves in audioChunksRef
\* for an event with size bytes of data
Collected(r, id, size) ==
  IF size > 0 THEN [r EXCEPT !.audioChunksRef = Append(@, id)] ELSE r

\* lines 45-51: a dataavailable event of the time slice
DataAvailable(id, size) ==
  /\ id <= recorder.calls
  /\ recorder.recordings[id].state = "recording"
  /\ Len(recorder.audioChunksRef) < MaxAudioChunks
  /\ recorder' = Collected(recorder, id, size)
  /\ UNCHANGED <<clock, rateLimits, rlCall, recentAllowed, everDenied, config,
                 terminal, tg, chat, webhook>>

\* lines 45-51: the last dataavailable event of a stopped MediaRecorder
LastDataAvailable(id, size) ==
  /\ id <= recorder.calls
  /\ recorder.recordings[id].pc = "stopping"
  /\ Len(recorder.audioChunksRef) < MaxAudioChunks \/ size = 0
  /\ recorder' = [Collected(recorder, id, size) EXCEPT
                    !.recordings[id].pc = "stopEvent"]
  /\ UNCHANGED <<clock, rateLimits, rlCall, recentAllowed, everDenied, config,
                 terminal, tg, chat, webhook>>

\* the MediaRecorder of a stream whose tracks were stopped ends its recording
TracksEnded(id) ==
  /\ id <= recorder.calls
  /\ recorder.recordings[id].state = "recording"
  /\ recorder.recordings[id].stream = "stopped"
  /\ recorder' = [recorder EXCEPT !.recordings[id].state = "inactive",
                                  !.recordings[id].pc = "stopping"]
  /\ UNCHANGED <<clock, rateLimits, rlCall, recentAllowed, everDenied, config,
                 terminal, tg, chat, webhook>>

\* lines 97-101: the clean-up at the end of the onstop handler of recording id
CleanedUp(r, id) ==
  LET held == r.streamRef
      released ==
        IF held # NoRecording
          THEN [r EXCEPT !.recordings[held].stream = "stopped",
                         !.recordings[held].stoppedBy = id,
                         !.streamRef = NoRecording]
          ELSE r
  IN [released EXCEPT !.recordings[id].pc = "done"]

\* faulty variant: the transcription ends and isTranscribing is left as it is
TranscriptionLeftOn(r, id) == CleanedUp(r, id)

\* lines 92-101: the finally block of the transcription, and the clean-up
TranscriptionFinished(r, id) ==
  CleanedUp([r EXCEPT !.isTranscribing = FALSE], id)

\* line 73: the test that guards the transcription
ShouldTranscribe(options) == ~ options.skipTranscription /\ options.onTranscript

\* lines 53-82, 97-101: the stop event of recording id: the blob is built, the
\* download is triggered and either the transcription request is sent or the
\* stream is cleaned up
OnStop(id) ==
  /\ id <= recorder.calls
  /\ recorder.recordings[id].pc = "stopEvent"
  /\ LET options == recorder.recordings[id].options
         built == [recorder EXCEPT
                     !.recordings[id].blob = recorder.audioChunksRef,
                     !.recordings[id].downloaded = ~ options.skipDownload]
     IN recorder' =
          IF ShouldTranscribe(options)
            THEN [built EXCEPT !.isTranscribing = TRUE,
                               !.recordings[id].attempts = @ + 1,
                               !.recordings[id].pc = "transcribing"]
            ELSE CleanedUp(built, id)
  /\ UNCHANGED <<clock, rateLimits, rlCall, recentAllowed, everDenied, config,
                 terminal, tg, chat, webhook>>

\* lines 79-101: the transcription request of recording id settles: with an OK
\* response ("ok"), with a response that is not OK ("notOk"), or rejected
\* ("threw")
FetchDone(id, outcome) ==
  /\ id <= recorder.calls
  /\ recorder.recordings[id].pc = "transcribing"
  /\ LET settled == [recorder EXCEPT !.recordings[id].response = outcome]
     IN recorder' =
          IF outcome = "ok" THEN [settled EXCEPT !.recordings[id].pc = "json"]
          ELSE TranscriptionFinished(settled, id)
  /\ UNCHANGED <<clock, rateLimits, rlCall, recentAllowed, everDenied, config,
                 terminal, tg, chat, webhook>>

\* lines 85-101: response.json() settles for recording id; parsed tells whether
\* it resolved
JsonDone(id, parsed, text) ==
  /\ id <= recorder.calls
  /\ recorder.recordings[id].pc = "json"
  /\ recorder' =
       IF parsed /\ Trim(text) # ""
         THEN TranscriptionFinished(
                [recorder EXCEPT !.recordings[id].transcripts =
                                    Append(@, Trim(text))], id)
         ELSE TranscriptionFinished(recorder, id)
  /\ UNCHANGED <<clock, rateLimits, rlCall, recentAllowed, everDenied, config,
                 terminal, tg, chat, webhook>>

----------------------------------------------------------------------------
(* What the outside world can answer *)

Failures ==
  { [ok |-> FALSE, isError |-> TRUE, message |-> "provider error"],
    [ok |-> FALSE, isError |-> FALSE, message |-> ""] }

Success == [ok |-> TRUE]

RetrieveResults ==
  { [ok |-> TRUE, chunks |-> c] : c \in SeqsUpTo(ChunkPool, MaxChunks) }

\* stream fragments: one that ends no sentence, one that ends one, one longer
\* than 50 characters
Fragments ==
  { "Om", " shanti. ",
    " the breath that moves between the worlds of form and emptiness" }

Configs == [openRouterApiKey : BOOLEAN, googleGenerativeAIApiKey : BOOLEAN]

FullConfig == [openRouterApiKey |-> TRUE, googleGenerativeAIApiKey |-> TRUE]

----------------------------------------------------------------------------
(* Specifications *)

InitWith(configs) ==
  /\ clock = 0
  /\ rateLimits = EmptyMap
  /\ rlCall = NoCall
  /\ recentAllowed = [u \in Users |-> <<>>]
  /\ everDenied = [u \in Users |-> FALSE]
  /\ config \in configs
  /\ terminal = TerminalIdle
  /\ tg = [h \in Handlers |-> TgIdle]
  /\ chat = ChatIdle
  /\ webhook = WebhookIdle
  /\ recorder = RecorderIdle

\* every step of handler invocation h for messages of the given users, with the
\* answers of the outside world drawn from the given sets
TgStep(h, users, results, fragments) ==
  \/ \E u \in users : TgStart(h, u)
  \/ \E ok \in BOOLEAN : TgRateLimitReplyDone(h, ok)
  \/ \E ok \in BOOLEAN : TgTypingDone(h, ok)
  \/ \E res \in results, started \in BOOLEAN : TgRetrieveDone(h, res, started)
  \/ \E ok \in BOOLEAN : TgPlaceholderDone(h, ok)
  \/ \E chunk \in fragments : TgFragment(h, chunk)
  \/ \E ok \in BOOLEAN : TgEditDone(h, ok)
  \/ TgStreamError(h)
  \/ TgStreamEnd(h)
  \/ \E ok \in BOOLEAN : TgFinalEditDone(h, ok)
  \/ \E ok \in BOOLEAN : TgFallbackDone(h, ok)

ChatStep ==
  \/ \E body \in Bodies : ChatStart(body)
  \/ ChatParsed
  \/ \E res \in RetrieveResults \cup Failures : ChatRetrieveDone(res)
  \/ \E res \in {Success} \cup Failures : ChatStreamTextDone(res)

InitRL == InitWith({FullConfig})

NextRL ==
  \/ Tick
  \/ \E u \in Users : CheckRateLimit(u)

\* the rate limiter alone, called directly for any identity at any instant
SpecRL == InitRL /\ [][NextRL]_vars

\* two identities
Pair == {1, 2}

InitPair ==
  /\ clock = 0
  /\ rateLimits = EmptyMap
  /\ rlCall = NoCall
  /\ recentAllowed = [u \in Pair |-> <<>>]
  /\ everDenied = [u \in Pair |-> FALSE]
  /\ config = FullConfig
  /\ terminal = TerminalIdle
  /\ tg = [h \in Handlers |-> TgIdle]
  /\ chat = ChatIdle
  /\ webhook = WebhookIdle
  /\ recorder = RecorderIdle

NextPair ==
  \/ Tick
  \/ \E u \in Pair : CheckRateLimit(u)

\* the rate limiter called in any order for two identities
SpecPair == InitPair /\ [][NextPair]_vars

Init == InitWith(Configs)

\* the fragments a short stream delivers next to handler invocation h
ShortStream(h) ==
  IF tg[h].fragments < MaxShortStream THEN {" shanti. "} ELSE {}

Next ==
  \/ TgStep(1, {1}, RetrieveResults \cup Failures, ShortStream(1))
  \/ ChatStep

\* one Telegram question at a time and one chat request at a time, all the
\* questions from one user within one millisecond
Spec == Init /\ [][Next]_vars

InitConc == InitWith({FullConfig})

\* the steps of handler invocation h when every call to Telegram succeeds and the
\* completion stream is empty
TgStepQuiet(h) ==
  \/ TgStart(h, 1)
  \/ TgRateLimitReplyDone(h, TRUE)
  \/ TgTypingDone(h, TRUE)
  \/ \E res \in {[ok |-> TRUE, chunks |-> <<>>]} \cup Failures :
        TgRetrieveDone(h, res, TRUE)
  \/ TgPlaceholderDone(h, TRUE)
  \/ TgStreamError(h)
  \/ TgStreamEnd(h)
  \/ TgFinalEditDone(h, TRUE)

NextConc ==
  \/ Tick
  \/ \E h \in Handlers : TgStepQuiet(h)

\* concurrently running Telegram questions of one user, with the clock
SpecConc == InitConc /\ [][NextConc]_vars

InitStream == InitWith({FullConfig})

\* what retrieve resolves with while the completion stream is looked at
StreamResults ==
  { [ok |-> TRUE, chunks |-> <<>>],
    [ok |-> TRUE, chunks |-> <<CHOOSE c \in ChunkPool : c.source = "breath.txt">>] }

NextStream ==
  \/ tg[1].pc = "idle" /\ TgStart(1, 1)
  \/ TgTypingDone(1, TRUE)
  \/ \E res \in StreamResults : TgRetrieveDone(1, res, TRUE)
  \/ \E ok \in BOOLEAN : TgPlaceholderDone(1, ok)
  \/ \E chunk \in Fragments : TgFragment(1, chunk)
  \/ \E ok \in BOOLEAN : TgEditDone(1, ok)
  \/ TgStreamError(1)
  \/ TgStreamEnd(1)
  \/ \E ok \in BOOLEAN : TgFinalEditDone(1, ok)
  \/ \E ok \in BOOLEAN : TgFallbackDone(1, ok)

\* one Telegram question whose retrieval succeeds, with every stream of
\* fragments and every outcome of the calls to Telegram
SpecStream == InitStream /\ [][NextStream]_vars

InitSources == InitWith({FullConfig})

\* the chunk retrieve ranks i-th: each of a source of its own, the score falling
\* with the rank
RankedChunk(i) ==
  [source |-> "lecture" \o ToString(i) \o ".txt",
   text |-> "Passage " \o ToString(i) \o ".",
   score |-> 965 - 97 * i]

RankedResults ==
  { [ok |-> TRUE, chunks |-> [i \in 1..n |-> RankedChunk(i)]] : n \in 0..MaxRanked }

NextSources ==
  \/ tg[1].pc = "idle" /\ TgStart(1, 1)
  \/ TgTypingDone(1, TRUE)
  \/ \E res \in RankedResults : TgRetrieveDone(1, res, TRUE)
  \/ TgPlaceholderDone(1, TRUE)
  \/ \E chunk \in ShortStream(1) : TgFragment(1, chunk)
  \/ \E ok \in BOOLEAN : TgEditDone(1, ok)
  \/ TgStreamEnd(1)
  \/ \E ok \in BOOLEAN : TgFinalEditDone(1, ok)
  \/ \E ok \in BOOLEAN : TgFallbackDone(1, ok)

\* one Telegram question answered from ranked lists of up to MaxRanked chunks
SpecSources == InitSources /\ [][NextSources]_vars

InitCancel == InitWith({FullConfig})

NextCancel ==
  \/ tg[1].pc = "idle" /\ TgStart(1, 1)
  \/ TgTypingDone(1, TRUE)
  \/ \E res \in StreamResults : TgRetrieveDone(1, res, TRUE)
  \/ TgPlaceholderDone(1, TRUE)
  \/ \E chunk \in {"Om", " shanti. "} : TgFragment(1, chunk)
  \/ \E ok \in BOOLEAN : TgEditDone(1, ok)
  \/ TgStreamError(1)
  \/ TgStreamEnd(1)
  \/ TgFinalEditDone(1, TRUE)
  \/ TgDisconnect(1)

\* one Telegram question whose webhook request can be closed at any moment
SpecCancel == InitCancel /\ [][NextCancel]_vars

\* the entries of config.browsers a browser can have
BrowserConfigs ==
  [found : BOOLEAN, maxItems : 0..MaxMaxItems, formatter : BOOLEAN,
   onSelect : BOOLEAN]

\* the component with browser b open under browserConfig, nothing or an item
\* within the browser's range selected
TerminalWith(b, browserConfig, selectedIndex, visible) ==
  [TerminalIdle EXCEPT
     !.activeBrowser = b,
     !.browserConfig = browserConfig,
     !.browserStates = [@ EXCEPT ![b] = [active |-> TRUE, visible |-> visible,
                                        selectedIndex |-> selectedIndex]]]

InitBrowser ==
  /\ clock = 0
  /\ rateLimits = EmptyMap
  /\ rlCall = NoCall
  /\ recentAllowed = [u \in Users |-> <<>>]
  /\ everDenied = [u \in Users |-> FALSE]
  /\ config = FullConfig
  /\ tg = [h \in Handlers |-> TgIdle]
  /\ chat = ChatIdle
  /\ webhook = WebhookIdle
  /\ recorder = RecorderIdle
  /\ \E b \in Browsers, browserConfig \in BrowserConfigs, visible \in BOOLEAN :
       \E selectedIndex \in
            {Undefined} \cup (0..(EffectiveMaxItems(browserConfig) - 1)) :
         terminal = TerminalWith(b, browserConfig, selectedIndex, visible)

NextBrowser == \E key \in Keys, merge \in BOOLEAN : HandleBrowserNavigation(key, merge)

\* key events in the terminal's input while a browser is open
SpecBrowser == InitBrowser /\ [][NextBrowser]_vars

NextWebhook ==
  \/ \E update \in Updates : WebhookPost(update)
  \/ WebhookParsed(1)
  \/ \E ok \in BOOLEAN : WebhookAskReplyDone(ok)
  \/ \E ok \in BOOLEAN : TgRateLimitReplyDone(1, ok)
  \/ \E ok \in BOOLEAN : TgTypingDone(1, ok)
  \/ \E res \in StreamResults \cup Failures, started \in BOOLEAN :
        TgRetrieveDone(1, res, started)
  \/ \E ok \in BOOLEAN : TgPlaceholderDone(1, ok)
  \/ \E chunk \in ShortStream(1) : TgFragment(1, chunk)
  \/ \E ok \in BOOLEAN : TgEditDone(1, ok)
  \/ TgStreamError(1)
  \/ TgStreamEnd(1)
  \/ \E ok \in BOOLEAN : TgFinalEditDone(1, ok)
  \/ \E ok \in BOOLEAN : TgFallbackDone(1, ok)
  \/ WebhookHandled
  \/ WebhookGet
  \/ WebhookHead

\* webhook requests of one user answered one after the other within one
\* millisecond, with GET and HEAD requests at any moment
SpecWebhook == InitWith(Configs) /\ [][NextWebhook]_vars

\* the component with the boot sequence running, in either mode, with the AI
\* enabled or not
InitTerminal ==
  /\ clock = 0
  /\ rateLimits = EmptyMap
  /\ rlCall = NoCall
  /\ recentAllowed = [u \in Users |-> <<>>]
  /\ everDenied = [u \in Users |-> FALSE]
  /\ config = FullConfig
  /\ tg = [h \in Handlers |-> TgIdle]
  /\ chat = ChatIdle
  /\ webhook = WebhookIdle
  /\ recorder = RecorderIdle
  /\ \E aiEnabled \in BOOLEAN, mode \in {"text", "audio"} :
       terminal = [TerminalIdle EXCEPT !.aiEnabled = aiEnabled, !.mode = mode]

NextSubmit ==
  \/ BootCompleted
  \/ \E command \in {"", "  ", "prana"}, output \in Outputs :
       HandleSubmit(command, output,
                    output.kind = "string" /\ output.content = "BROWSER_ACTIVATED")
  \/ ChatAnswered
  \/ ChatNotice
  \/ OnClear

\* commands submitted to the terminal and answered by the executor or the chat
SpecSubmit == InitTerminal /\ [][NextSubmit]_vars

NextMerge ==
  \/ BootCompleted
  \/ \E output \in {o \in Outputs : o.kind \in {"null", "object"}} :
       HandleSubmit("prana", output, FALSE)
  \/ ChatAnswered
  \/ OnClear
  \/ \E mode \in {"text", "audio"} : SetMode(mode)
  \/ AudioSendMessage
  \/ RenderStart
  \/ MergeIteration
  \/ MergeDone
  \/ RenderOver

\* the terminal rendered between the events that change its history and the
\* chat's messages
SpecMerge == InitTerminal /\ [][NextMerge]_vars

\* the options the recordings are made with where the transcription is not
\* looked at
PlainOptions ==
  { o \in RecordingOptions : o.skipDownload /\ (o.skipTranscription <=> ~ o.onTranscript) }

NextRecorder ==
  \/ \E options \in PlainOptions, supported \in BOOLEAN :
       StartRecording(options, supported)
  \/ StopRecording
  \/ \E options \in PlainOptions : ToggleRecording(options, TRUE)
  \/ \E id \in Recordings, granted, constructed, started \in BOOLEAN :
       GetUserMediaDone(id, granted, constructed, started)
  \/ \E id \in Recordings, size \in {0, 1024} : DataAvailable(id, size)
  \/ \E id \in Recordings, size \in {0, 1024} : LastDataAvailable(id, size)
  \/ \E id \in Recordings : TracksEnded(id)
  \/ \E id \in Recordings : OnStop(id)
  \/ \E id \in Recordings : FetchDone(id, "notOk")

\* recordings started, stopped and toggled in any order while getUserMedia,
\* the MediaRecorder events and the transcription requests are pending
SpecRecorder == InitWith({FullConfig}) /\ [][NextRecorder]_vars

NextTranscribe ==
  \/ \E options \in RecordingOptions : recorder.calls = 0 /\ StartRecording(options, TRUE)
  \/ \E options \in {o \in RecordingOptions : ShouldTranscribe(o) /\ o.skipDownload} :
       recorder.calls > 0 /\ StartRecording(options, TRUE)
  \/ StopRecording
  \/ \E id \in Recordings : GetUserMediaDone(id, TRUE, TRUE, TRUE)
  \/ \E id \in Recordings : LastDataAvailable(id, 1024)
  \/ \E id \in Recordings : OnStop(id)
  \/ \E id \in Recordings, outcome \in {"ok", "notOk", "threw"} : FetchDone(id, outcome)
  \/ \E id \in Recordings, parsed \in BOOLEAN,
        text \in {"", "  ", " Om shanti "} :
       JsonDone(id, parsed, text)

\* recordings made with every combination of options and transcribed with
\* every outcome of the request
SpecTranscribe == InitWith({FullConfig}) /\ [][NextTranscribe]_vars

----------------------------------------------------------------------------
(* Claims about the rate limiter, checked under SpecRL *)

\* the entries of s that are less than RATE_LIMIT_WINDOW old at now, in order
RECURSIVE KeptOf(_, _)
KeptOf(s, now) ==
  IF s = <<>> THEN <<>>
  ELSE IF now - Head(s) < 60000
         THEN <<Head(s)>> \o KeptOf(Tail(s), now)
         ELSE KeptOf(Tail(s), now)

StoredBefore(call) ==
  IF call.userId \in DOMAIN call.before THEN call.before[call.userId] ELSE <<>>

StoredNow(userId) ==
  IF userId \in DOMAIN rateLimits THEN rateLimits[userId] ELSE <<>>

\* C1: a call of checkRateLimit counts the stored timestamps younger than the
\* window; below MAX_REQUESTS it stores the pruned list with now appended and
\* returns true; otherwise it returns false and leaves the Map as it was.
C1_CheckRateLimitContract ==
  rlCall.called =>
    LET kept == KeptOf(StoredBefore(rlCall), rlCall.now) IN
      IF Len(kept) < 10
        THEN /\ rlCall.result = TRUE
             /\ DOMAIN rateLimits = (DOMAIN rlCall.before) \cup {rlCall.userId}
             /\ rateLimits[rlCall.userId] = kept \o <<rlCall.now>>
             /\ \A u \in DOMAIN rlCall.before :
                   u # rlCall.userId => rateLimits[u] = rlCall.before[u]
        ELSE /\ rlCall.result = FALSE
             /\ rateLimits = rlCall.before

\* a denied call, which left the Map alone, of an identity whose entries an
\* earlier allowed call had pruned
C1_Witness_DeniedAfterPrune ==
  /\ rlCall.called
  /\ rlCall.result = FALSE
  /\ Len(StoredBefore(rlCall)) = 10
  /\ StoredBefore(rlCall)[1] > 0
  /\ rateLimits = rlCall.before

\* C2: with MAX_REQUESTS = 10 and a 60000 ms window, a call that follows 10
\* allowed calls of the same identity made within the last 60 s is denied; a
\* call that finds fewer than 10 allowed calls of the identity within the last
\* 60 s, the earliest of a full window having become 60 s old or older, is
\* allowed, whether or not calls were denied in between.
C2_RateWindow ==
  rlCall.called =>
    /\ Len(rlCall.recentBefore) >= 10 => rlCall.result = FALSE
    /\ Len(rlCall.recentBefore) < 10 => rlCall.result = TRUE

\* a call allowed again after the identity was denied: its Map entry was full,
\* and its earliest timestamp is exactly 60 s old
C2_Witness_AllowedAgain ==
  /\ rlCall.called
  /\ rlCall.result = TRUE
  /\ everDenied[rlCall.userId]
  /\ Len(StoredBefore(rlCall)) = 10
  /\ rlCall.now - StoredBefore(rlCall)[1] = 60000

\* C4: right after a call of checkRateLimit for an identity, allowed or denied,
\* the sequence stored for it holds no timestamp 60 s old or older, is in
\* non-decreasing order and has at most MAX_REQUESTS entries.
C4_PrunedOnEachCheck ==
  rlCall.called =>
    LET s == StoredNow(rlCall.userId) IN
      /\ \A i \in 1..Len(s) : ~ (rlCall.now - s[i] >= 60000)
      /\ \A i \in 1..Len(s) : \A j \in i..Len(s) : s[i] <= s[j]
      /\ Len(s) <= 10

\* a call that found an entry exactly one window old, for an identity that was
\* denied before, and left more than one entry stored
C4_Witness_BoundaryPruned ==
  /\ rlCall.called
  /\ \E i \in 1..Len(StoredBefore(rlCall)) :
        rlCall.now - StoredBefore(rlCall)[i] = 60000
  /\ everDenied[rlCall.userId]
  /\ Len(StoredNow(rlCall.userId)) >= 2

----------------------------------------------------------------------------
(* Claims about the rate limiter and two identities, checked under SpecPair *)

\* C17: a call of checkRateLimit for one identity, allowed or denied, leaves
\* the stored sequence of every other identity as it was, and no entry appears
\* for another identity; its result is decided by the allowed calls of its own
\* identity in the last 60 s alone (denied at 10 of them, allowed below),
\* whatever the other identity's calls.
C17_PerIdentityState ==
  rlCall.called =>
    /\ \A u \in Pair :
          u # rlCall.userId =>
            /\ (u \in DOMAIN rateLimits) = (u \in DOMAIN rlCall.before)
            /\ u \in DOMAIN rateLimits => rateLimits[u] = rlCall.before[u]
    /\ rlCall.result = (Len(rlCall.recentBefore) < 10)
    /\ \A u \in Pair :
          Len(StoredNow(u)) <= 10 /\ Len(recentAllowed[u]) <= 10

\* a call of one identity was allowed, and left the other identity's full list
\* alone, after that other identity had been denied
C17_Witness_AllowedBesideFull ==
  /\ rlCall.called /\ rlCall.result = TRUE
  /\ \E u \in Pair :
        /\ u # rlCall.userId
        /\ everDenied[u]
        /\ Len(StoredNow(u)) = 10
  /\ Len(StoredBefore(rlCall)) >= 1

----------------------------------------------------------------------------
(* Claims about concurrent Telegram questions, checked under SpecConc *)

\* C3: whatever the interleaving of the running handleQuestion invocations, for
\* every identity and at every instant at most MAX_REQUESTS allowed calls have a
\* timestamp in the trailing 60 s, and each of those timestamps is in the Map:
\* none was lost to a concurrent update.
C3_AtomicCheckAndAppend ==
  \A u \in Users :
    /\ Cardinality({ i \in 1..Len(recentAllowed[u]) :
                       clock - recentAllowed[u][i] < 60000 }) <= 10
    /\ KeptOf(StoredNow(u), clock) = recentAllowed[u]

\* two invocations suspended at an await at once, both allowed, while the
\* window of their user is full and a third question of the user was denied
C3_Witness_ConcurrentFullWindow ==
  /\ tg[1].pc = "retrieving" /\ tg[1].allowed
  /\ tg[2].pc \in {"typing", "placeholder", "streaming"} /\ tg[2].allowed
  /\ Len(recentAllowed[1]) = 10
  /\ everDenied[1]
  /\ clock > 0

----------------------------------------------------------------------------
(* Claims about the Telegram handler and the chat endpoint, checked under Spec *)

HasCall(out, op) == \E i \in 1..Len(out) : out[i].op = op

Contains(s, sub) ==
  \E i \in 1..(Len(s) - Len(sub) + 1) : SubSeq(s, i, i + Len(sub) - 1) = sub

IsPrefix(a, b) == Len(a) <= Len(b) /\ SubSeq(b, 1, Len(a)) = a

EndsWith(s, suffix) ==
  Len(suffix) <= Len(s) /\ SubSeq(s, Len(s) - Len(suffix) + 1, Len(s)) = suffix

\* C5: a question that checkRateLimit denies gets the rate-limit reply and
\* nothing else: no retrieval, no completion call, no edit, and never the
\* generic error reply, also when sending the rate-limit reply fails.
C5_RateLimitDistinct ==
  \A h \in Handlers :
    (tg[h].pc # "idle" /\ ~ tg[h].allowed) =>
      /\ \E i \in 1..Len(tg[h].out) :
            /\ tg[h].out[i].op = "reply"
            /\ Contains(tg[h].out[i].text, "Rate limit exceeded")
      /\ \A i \in 1..Len(tg[h].out) :
            /\ tg[h].out[i].op \notin {"retrieve", "streamText", "edit"}
            /\ ~ Contains(tg[h].out[i].text, "Sorry, I encountered an error")

\* a denied question whose rate-limit reply failed to send
C5_Witness_DeniedReplyFailed ==
  /\ tg[1].pc = "rejected"
  /\ ~ tg[1].allowed
  /\ tg[1].failures = {"rateLimitReply"}
  /\ everDenied[1]

\* C6: on both endpoints every completion call comes after a call of retrieve
\* that has resolved, and the system prompt it is given is the persona prompt,
\* the context header and the context built from that retrieval's results.
C6_RetrievalBeforeCompletion ==
  /\ \A h \in Handlers : \A i \in 1..Len(tg[h].out) :
        tg[h].out[i].op = "streamText" =>
          /\ tg[h].retrieval = "resolved"
          /\ \E j \in 1..(i - 1) : tg[h].out[j].op = "retrieve"
          /\ tg[h].out[i].text =
               CYBERTANTRA_SYSTEM_PROMPT \o "\n\nRetrieved lecture context:\n"
                 \o tg[h].context
          /\ tg[h].context = BuildContext(tg[h].chunks)
  /\ \A i \in 1..Len(chat.out) :
        chat.out[i].op = "streamText" =>
          /\ chat.retrieval = "resolved"
          /\ \E j \in 1..(i - 1) : chat.out[j].op = "retrieve"
          /\ chat.out[i].text =
               CYBERTANTRA_SYSTEM_PROMPT \o "\n\nRetrieved lecture context:\n"
                 \o chat.context
          /\ chat.context = BuildContext(chat.chunks)

\* both endpoints have made their completion call, for different non-empty
\* retrieval results
C6_Witness_BothCompleting ==
  /\ HasCall(tg[1].out, "streamText")
  /\ HasCall(chat.out, "streamText")
  /\ Len(tg[1].chunks) > 0 /\ Len(chat.chunks) > 0
  /\ tg[1].chunks # chat.chunks

\* C7: when retrieve rejects, no completion call is made for that query and the
\* caller gets a failure: the error reply on Telegram, a 500 response with an
\* error object on the chat endpoint.
C7_RetrievalFailurePropagated ==
  /\ \A h \in Handlers :
        tg[h].retrieval = "rejected" =>
          /\ ~ HasCall(tg[h].out, "streamText")
          /\ tg[h].pc = "done"
          /\ tg[h].out[Len(tg[h].out)].op = "reply"
          /\ Contains(tg[h].out[Len(tg[h].out)].text, "Sorry, I encountered an error")
  /\ chat.retrieval = "rejected" =>
          /\ ~ HasCall(chat.out, "streamText")
          /\ chat.pc = "responded"
          /\ chat.response.status = 500
          /\ chat.response.body \in
               {"{\"error\":\"provider error\"}", "{\"error\":\"Chat failed\"}"}

\* retrieval has failed on both endpoints
C7_Witness_BothRejected ==
  /\ tg[1].retrieval = "rejected"
  /\ chat.retrieval = "rejected"
  /\ chat.response.body = "{\"error\":\"Chat failed\"}"

RECURSIVE ExpectedFrom(_, _)
\* the results from the i-th on, each as '[i] From "<source>":' and its text,
\* consecutive ones joined by the separator
ExpectedFrom(chunks, i) ==
  IF i > Len(chunks) THEN ""
  ELSE "[" \o ToString(i) \o "] From \"" \o chunks[i].source \o "\":\n"
         \o chunks[i].text
         \o (IF i < Len(chunks) THEN "\n\n---\n\n" ELSE "")
         \o ExpectedFrom(chunks, i + 1)

\* C8: the context lists the retrieved results in the order retrieve returned
\* them, none dropped, duplicated or reordered, the i-th as '[i] From "<source>":'
\* and its text, consecutive ones joined by '\n\n---\n\n'; both endpoints build
\* the same context from the same results.
C8_ContextInRankedOrder ==
  /\ \A h \in Handlers :
        tg[h].retrieval = "resolved" => tg[h].context = ExpectedFrom(tg[h].chunks, 1)
  /\ chat.retrieval = "resolved" => chat.context = ExpectedFrom(chat.chunks, 1)
  /\ \A h \in Handlers :
        (tg[h].retrieval = "resolved" /\ chat.retrieval = "resolved"
           /\ tg[h].chunks = chat.chunks) => tg[h].context = chat.context

\* both endpoints built the context of the same two results of different sources
C8_Witness_SameTwoResults ==
  /\ tg[1].retrieval = "resolved" /\ chat.retrieval = "resolved"
  /\ tg[1].chunks = chat.chunks
  /\ Len(chat.chunks) = 2
  /\ chat.chunks[1].source # chat.chunks[2].source

RECURSIVE RenderedLength(_, _)
\* the total length of the results from the i-th on as the context renders them
RenderedLength(chunks, i) ==
  IF i > Len(chunks) THEN 0
  ELSE Len("[" \o ToString(i) \o "] From \"" \o chunks[i].source \o "\":\n")
         + Len(chunks[i].text) + RenderedLength(chunks, i + 1)

FullLength(chunks) ==
  RenderedLength(chunks, 1) + (IF Len(chunks) > 1 THEN 7 * (Len(chunks) - 1) ELSE 0)

C10_EmptyRetrievalValid ==
  /\ \A h \in Handlers :
        (tg[h].retrieval = "resolved" /\ tg[h].chunks = <<>>) =>
          /\ \E i \in 1..Len(tg[h].out) :
                /\ tg[h].out[i].op = "streamText"
                /\ tg[h].out[i].text =
                     CYBERTANTRA_SYSTEM_PROMPT \o "\n\nRetrieved lecture context:\n"
          /\ tg[h].failures \cap {"streamText", "placeholder", "stream", "fallback"} = {}
                => \A i \in 1..Len(tg[h].out) :
                      ~ Contains(tg[h].out[i].text, "Sorry, I encountered an error")
          /\ \A i \in 1..Len(tg[h].out) :
                tg[h].out[i].op \in {"edit", "reply"}
                  => ~ Contains(tg[h].out[i].text, "Sources:")
  /\ (chat.retrieval = "resolved" /\ chat.chunks = <<>>) =>
          /\ \E i \in 1..Len(chat.out) :
                /\ chat.out[i].op = "streamText"
                /\ chat.out[i].text =
                     CYBERTANTRA_SYSTEM_PROMPT \o "\n\nRetrieved lecture context:\n"
          /\ "streamText" \notin chat.failures => chat.response.status \in {0, 200}

\* with no results retrieved, the Telegram answer was delivered by the final
\* edit after a stream of fragments, and the chat endpoint answered 200
C10_Witness_EmptyAnswered ==
  /\ tg[1].retrieval = "resolved" /\ tg[1].chunks = <<>>
  /\ tg[1].pc = "done" /\ tg[1].caught = "" /\ tg[1].fragments > 0
  /\ chat.retrieval = "resolved" /\ chat.chunks = <<>>
  /\ chat.response.status = 200

\* C18: a question that was allowed has its timestamp in the Map from the first
\* await on, before the configuration is read and before retrieve or streamText
\* is called, and keeps it whatever becomes of the question (a missing API key,
\* a failed retrieve, a failed stream, a failed reply): the Map holds one
\* timestamp for every question allowed in the last 60 s, and a question is
\* denied exactly when it finds 10 of them; with an API key missing every
\* allowed question ends at the configuration check, and still counts.
C18_SlotConsumedWhateverOutcome ==
  \A h \in Handlers :
    tg[h].pc # "idle" =>
      LET stored == StoredNow(tg[h].userId) IN
        /\ Len(stored) = Len(recentAllowed[tg[h].userId])
        /\ tg[h].allowed => (Len(stored) >= 1 /\ stored[Len(stored)] = clock)
        /\ tg[h].pc = "typing" =>
              (tg[h].allowed /\ tg[h].out = <<[op |-> "sendChatAction", text |-> "typing"]>>)
        /\ ~ tg[h].allowed => Len(stored) = 10
        /\ (~ config.openRouterApiKey \/ ~ config.googleGenerativeAIApiKey) =>
              /\ ~ HasCall(tg[h].out, "retrieve")
              /\ (tg[h].pc = "done" /\ tg[h].allowed) => tg[h].caught = "config"

\* with an API key missing, ten questions were allowed and failed, and the
\* eleventh is denied
C18_Witness_EleventhDenied ==
  /\ ~ config.openRouterApiKey
  /\ tg[1].pc = "rateLimitReply" /\ ~ tg[1].allowed
  /\ Len(StoredNow(1)) = 10
  /\ everDenied[1]

\* the request of the chat endpoint has failed: its body did not parse or held
\* no messages, an API key is missing, or retrieve or streamText failed
ChatFailed ==
  \/ chat.failures # {}
  \/ chat.body.parses /\ Len(chat.body.messages) = 0
  \/ chat.body.parses /\ Len(chat.body.messages) > 0
       /\ (~ config.openRouterApiKey \/ ~ config.googleGenerativeAIApiKey)

\* C12: once POST of the chat endpoint is over, every failure (a body that does
\* not parse, missing or empty messages, a missing API key, a failed retrieve,
\* a failed completion call) has been answered with a response of a non-2xx
\* status and a short error text, a JSON object { error } when the failure is
\* on the query path; a 2xx response is given only when retrieve resolved and
\* the completion call started.
C12_ChatFailuresAnswered ==
  chat.pc \in {"responded", "rejected"} =>
    /\ ChatFailed =>
          /\ chat.pc = "responded"
          /\ chat.response.status >= 400 /\ chat.response.status <= 599
          /\ Len(chat.response.body) > 0 /\ Len(chat.response.body) <= 80
    /\ (chat.body.parses /\ Len(chat.body.messages) > 0 /\ ChatFailed) =>
          /\ IsPrefix("{\"error\":\"", chat.response.body)
          /\ EndsWith(chat.response.body, "\"}")
    /\ (chat.response.status >= 200 /\ chat.response.status <= 299) =>
          /\ chat.retrieval = "resolved"
          /\ "streamText" \notin chat.failures
          /\ HasCall(chat.out, "streamText")

----------------------------------------------------------------------------
(* Claims about the stream of a Telegram answer, checked under SpecStream *)

RECURSIVE Concat(_)
\* the fragments one after the other
Concat(frs) == IF frs = <<>> THEN "" ELSE Head(frs) \o Concat(Tail(frs))

\* the answer as far as the stream has delivered it
Answer(r) == "(dizzy) " \o Concat(r.received)

SentError(r) ==
  \E i \in 1..Len(r.out) : Contains(r.out[i].text, "Sorry, I encountered an error")

\* C11, as stated: every stream that ends normally has its complete response
\* delivered, by the final edit or by a new message.
C11_Original_AlwaysDelivered ==
  \A h \in Handlers :
    (tg[h].pc = "done" /\ tg[h].ended) =>
      ("finalEdit" \notin tg[h].failures \/ "fallback" \notin tg[h].failures)

\* C11, amended: a failed intermediate edit neither ends the loop nor costs the
\* accumulated response a fragment, and alone brings no error reply; once the
\* stream has ended the complete response is sent by the final edit, and when
\* that fails the same text is sent as a new message and the failure is not
\* escalated; only when that new message fails too is the response not
\* delivered, and the error reply is sent.
C11_EditFailuresLoseNoOutput ==
  \A h \in Handlers :
    /\ tg[h].pc \in {"streaming", "editing"} => tg[h].fullResponse = Answer(tg[h])
    /\ (tg[h].failures = {"edit"}) => (tg[h].caught = "" /\ ~ SentError(tg[h]))
    /\ tg[h].ended =>
          \E i \in 1..Len(tg[h].out) :
            /\ tg[h].out[i].op = "edit"
            /\ tg[h].out[i].text = tg[h].fullResponse
            /\ IsPrefix(Answer(tg[h]), tg[h].out[i].text)
            /\ "finalEdit" \in tg[h].failures =>
                  /\ i < Len(tg[h].out)
                  /\ tg[h].out[i + 1] = [op |-> "reply", text |-> tg[h].out[i].text]
    /\ ("finalEdit" \in tg[h].failures /\ "fallback" \notin tg[h].failures) =>
          (tg[h].caught = "" /\ ~ SentError(tg[h]))
    /\ (tg[h].pc = "done" /\ tg[h].ended) =>
          \/ "finalEdit" \notin tg[h].failures
          \/ "fallback" \notin tg[h].failures
          \/ tg[h].caught = "fallback" /\ SentError(tg[h])

\* after an intermediate edit and the final edit both failed, the answer of a
\* stream that went on to its end was delivered as a new message
C11_Witness_FallbackDelivered ==
  /\ tg[1].pc = "done" /\ tg[1].ended /\ tg[1].caught = ""
  /\ tg[1].failures = {"edit", "finalEdit"}
  /\ Len(tg[1].received) > 3
  /\ tg[1].out[Len(tg[1].out)].op = "reply"

\* a text shown to the user: a message sent or an edit of one
Shown(call) == call.op \in {"reply", "edit"}

\* C13: when the completion stream fails, the error reply is the last thing
\* sent and every text shown before it ends with '...' (the placeholder or an
\* intermediate edit); a shown text without that mark, other than the error
\* reply, and any text with a Sources footer, is sent only once the stream has
\* ended normally, and then it holds the whole answer.
C13_NoHalfAnswerAsComplete ==
  \A h \in Handlers :
    /\ "stream" \in tg[h].failures =>
          /\ tg[h].pc = "done"
          /\ ~ tg[h].ended
          /\ tg[h].out[Len(tg[h].out)].op = "reply"
          /\ Contains(tg[h].out[Len(tg[h].out)].text, "Sorry, I encountered an error")
          /\ \A i \in 1..(Len(tg[h].out) - 1) :
                Shown(tg[h].out[i]) => EndsWith(tg[h].out[i].text, "...")
    /\ \A i \in 1..Len(tg[h].out) :
          (/\ Shown(tg[h].out[i])
           /\ tg[h].allowed
           /\ ~ Contains(tg[h].out[i].text, "Sorry, I encountered an error")
           /\ \/ ~ EndsWith(tg[h].out[i].text, "...")
              \/ Contains(tg[h].out[i].text, "Sources:"))
          => (tg[h].ended /\ IsPrefix(Answer(tg[h]), tg[h].out[i].text))

\* a stream that failed after an intermediate edit had shown a part of the
\* answer to a question with a retrieved chunk
C13_Witness_FailedAfterEdit ==
  /\ "stream" \in tg[1].failures
  /\ HasCall(tg[1].out, "edit")
  /\ Len(tg[1].received) >= 3
  /\ Len(tg[1].chunks) > 0

\* the i-th call of r is an edit made while the stream was still delivering
Intermediate(r, i) ==
  /\ r.out[i].op = "edit"
  /\ ~ (r.ended /\ \A j \in (i + 1)..Len(r.out) : r.out[j].op # "edit")

\* a text without its last three characters
Unmarked(text) == SubSeq(text, 1, Len(text) - 3)

\* C14: while the stream is consumed the accumulated response is '(dizzy) '
\* followed by the fragments received so far, in the order they came; the text
\* of an intermediate edit is that for some number of fragments followed by
\* '...', and without the '...' it begins the text of every later edit and of
\* the final message: nothing shown is taken back or reordered.
C14_FragmentsInArrivalOrder ==
  \A h \in Handlers :
    /\ tg[h].pc \in {"placeholder"} => tg[h].received = <<>>
    /\ tg[h].pc \in {"streaming", "editing"} =>
          tg[h].fullResponse = "(dizzy) " \o Concat(tg[h].received)
    /\ tg[h].ended => IsPrefix("(dizzy) " \o Concat(tg[h].received), tg[h].fullResponse)
    /\ \A i \in 1..Len(tg[h].out) :
          Intermediate(tg[h], i) =>
            /\ EndsWith(tg[h].out[i].text, "...")
            /\ \E k \in 1..Len(tg[h].received) :
                  Unmarked(tg[h].out[i].text)
                    = "(dizzy) " \o Concat(SubSeq(tg[h].received, 1, k))
            /\ \A j \in (i + 1)..Len(tg[h].out) :
                  (Shown(tg[h].out[j])
                     /\ ~ Contains(tg[h].out[j].text, "Sorry, I encountered an error"))
                  => IsPrefix(Unmarked(tg[h].out[i].text), tg[h].out[j].text)

\* a stream of six fragments, not all alike, that brought two intermediate
\* edits and was delivered by the final edit
C14_Witness_TwoEditsThenFinal ==
  /\ tg[1].pc = "done" /\ tg[1].ended /\ tg[1].caught = ""
  /\ Cardinality({ i \in 1..Len(tg[1].out) : Intermediate(tg[1], i) }) = 2
  /\ \E i, j \in 1..Len(tg[1].received) : tg[1].received[i] # tg[1].received[j]

\* the last character of s that is not white space, "" when there is none
RECURSIVE LastInk(_)
LastInk(s) ==
  IF s = "" THEN ""
  ELSE IF SubSeq(s, Len(s), Len(s)) \in {" ", "\n", "\t", "\r"}
    THEN LastInk(SubSeq(s, 1, Len(s) - 1))
    ELSE SubSeq(s, Len(s), Len(s))

\* the pending text and the number of flushes after the fragments frs, the
\* pending text starting as pending and the flushes at count
RECURSIVE Replay(_, _, _)
Replay(frs, pending, count) ==
  IF frs = <<>> THEN [pending |-> pending, flushes |-> count]
  ELSE LET text == pending \o Head(frs) IN
         IF Len(text) > 50 \/ LastInk(text) \in {".", "!", "?"}
           THEN Replay(Tail(frs), "", count + 1)
           ELSE Replay(Tail(frs), text, count)

\* the edits made while the stream was delivering
IntermediateEdits(r) == { i \in 1..Len(r.out) : Intermediate(r, i) }

\* C19: after each fragment the pending text is flushed exactly when it is
\* longer than 50 characters or ends with '.', '!' or '?' and optional white
\* space; updateCounter is the number of flushes and the buffer is the text
\* received since the last one; with n flushes made, floor(n / 3) intermediate
\* edits have been attempted, the latest while the third, sixth, ... flush is
\* in progress, and none between two flushes.
C19_EditEveryThirdFlush ==
  \A h \in Handlers :
    tg[h].pc \in {"streaming", "editing", "finalEdit", "fallbackReply", "done"} =>
      LET replay == Replay(tg[h].received, "", 0) IN
        /\ tg[h].updateCounter = replay.flushes
        /\ Cardinality(IntermediateEdits(tg[h])) = tg[h].updateCounter \div 3
        /\ tg[h].pc = "streaming" => tg[h].buffer = replay.pending
        /\ tg[h].pc = "editing" =>
              /\ tg[h].updateCounter % 3 = 0 /\ tg[h].updateCounter > 0
              /\ replay.pending = ""
              /\ tg[h].out[Len(tg[h].out)].op = "edit"

\* five flushes after six fragments of all three kinds, a fragment that ended
\* no sentence having been flushed with the next one, and one intermediate edit
C19_Witness_FiveFlushes ==
  /\ tg[1].updateCounter = 5
  /\ Len(tg[1].received) = 6
  /\ tg[1].pc = "streaming"
  /\ Cardinality(IntermediateEdits(tg[1])) = 1
  /\ \E i \in 1..Len(tg[1].received) : tg[1].received[i] = "Om"
  /\ \E i \in 1..Len(tg[1].received) : Len(tg[1].received[i]) > 50

----------------------------------------------------------------------------
(* Claims about the Sources footer, checked under SpecSources *)

\* the whole number nearest to score / 10 (the score in thousandths), the upper
\* one of two equally near
Percent(score) == CHOOSE p \in -100..100 : 10 * p - 5 <= score /\ score < 10 * p + 5

RECURSIVE FooterLines(_, _, _)
\* the lines of the chunks from the i-th to the last-th
FooterLines(chunks, i, last) ==
  IF i > last THEN ""
  ELSE "\n" \o ToString(i) \o ". " \o chunks[i].source \o " (relevance: "
         \o ToString(Percent(chunks[i].score)) \o "%)"
         \o FooterLines(chunks, i + 1, last)

ExpectedFooter(chunks) ==
  IF Len(chunks) = 0 THEN ""
  ELSE "\n\n(books) Sources:"
         \o FooterLines(chunks, 1, IF Len(chunks) < 5 THEN Len(chunks) ELSE 5)

\* C20: the final message (the final edit, and the new message sent when that
\* edit fails) is the answer followed, iff at least one chunk was retrieved, by
\* the Sources footer: the header and one line for each of the first
\* min(5, number of chunks) chunks, in retrieval order, numbered from 1, with
\* the source and the score as a rounded percentage; the source of a chunk
\* ranked sixth or lower is in the context and in no text shown.
C20_SourcesFooter ==
  \A h \in Handlers :
    tg[h].ended =>
      /\ tg[h].fullResponse = Answer(tg[h]) \o ExpectedFooter(tg[h].chunks)
      /\ Contains(tg[h].fullResponse, "Sources:") = (Len(tg[h].chunks) >= 1)
      /\ \E i \in 1..Len(tg[h].out) :
            tg[h].out[i] = [op |-> "edit", text |-> tg[h].fullResponse]
      /\ \A i \in 1..Len(tg[h].out) :
            (Shown(tg[h].out[i]) /\ ~ Intermediate(tg[h], i)
               /\ tg[h].out[i].text # "(dizzy) ..."
               /\ ~ Contains(tg[h].out[i].text, "Sorry, I encountered an error"))
            => tg[h].out[i].text = tg[h].fullResponse
      /\ \A k \in 1..Len(tg[h].chunks) :
            /\ Contains(tg[h].context, tg[h].chunks[k].source)
            /\ \A i \in 1..Len(tg[h].out) :
                  Shown(tg[h].out[i]) =>
                    (Contains(tg[h].out[i].text, tg[h].chunks[k].source)
                       = (k <= 5 /\ tg[h].out[i].text = tg[h].fullResponse))

\* six chunks were retrieved, and the answer with its footer was sent by the
\* final edit and, that edit having failed, as a new message
C20_Witness_SixChunks ==
  /\ tg[1].pc = "done" /\ tg[1].ended /\ tg[1].caught = ""
  /\ Len(tg[1].chunks) = 6
  /\ "finalEdit" \in tg[1].failures
  /\ Len(tg[1].received) > 0

----------------------------------------------------------------------------
(* Claims about a closed webhook request, checked under SpecCancel *)

\* C15: once the request a handler runs for is closed in the middle of the
\* stream, after a fragment was received, the handler takes no further fragment
\* from the completion stream (the completion call is cancelled, not drained to
\* its end), and what was shown before stays.
C15_CancelledOnDisconnect ==
  \A h \in Handlers :
    (~ tg[h].connected /\ Len(tg[h].received) - tg[h].drained > 0) =>
      tg[h].drained = 0

----------------------------------------------------------------------------
(* Claims about the browser navigation, checked under SpecBrowser *)

\* a browser is open and active, and config.browsers has its entry
BrowserActive(t) ==
  /\ t.activeBrowser # "null"
  /\ t.browserStates[t.activeBrowser].active
  /\ t.browserConfig.found

\* the index the component shows selected for browser b
ShownIndex(t, b) ==
  IF t.browserStates[b].selectedIndex = -1 THEN 0 ELSE t.browserStates[b].selectedIndex

\* the number of items of the browser: maxItems, 10 when none is set
ItemCount(t) == IF t.browserConfig.maxItems = 0 THEN 10 ELSE t.browserConfig.maxItems

\* C16: for a key event that finds a browser active, with its selection in
\* 0..maxItems-1 (maxItems 10 when not set): after it the selection is still in
\* that range while the browser is active; ArrowUp and k move it up by one but
\* not above 0, ArrowDown and j down by one but not below maxItems-1; a digit d
\* selects d-1 when d-1 < maxItems and otherwise changes nothing; Enter selects
\* the current index; q and Escape leave the browser inactive and hidden and
\* activeBrowser null; no other browser's state changes.
C16_BrowserSelectionInRange ==
  [][ BrowserActive(terminal) =>
        LET b == terminal.activeBrowser
            key == terminal'.lastKey
            old == ShownIndex(terminal, b)
            new == ShownIndex(terminal', b)
            n == ItemCount(terminal)
        IN
        /\ BrowserActive(terminal') => (0 <= new /\ new <= n - 1)
        /\ key \in {"ArrowUp", "k"} =>
              /\ new = (IF old = 0 THEN 0 ELSE old - 1)
              /\ BrowserActive(terminal') /\ terminal'.handled
        /\ key \in {"ArrowDown", "j"} =>
              /\ new = (IF old = n - 1 THEN n - 1 ELSE old + 1)
              /\ BrowserActive(terminal') /\ terminal'.handled
        /\ key \in {"1", "2", "3", "4", "5", "6", "7", "8", "9"} =>
              \A d \in 1..9 :
                ToString(d) = key =>
                  IF d - 1 < n
                    THEN /\ new = d - 1
                         /\ terminal'.browserStates[b].visible
                         /\ terminal.browserConfig.onSelect => terminal'.onSelect = d - 1
                         /\ terminal'.handled
                    ELSE /\ terminal'.browserStates = terminal.browserStates
                         /\ terminal'.activeBrowser = b
                         /\ terminal'.onSelect = -1
                         /\ ~ terminal'.handled
        /\ key = "Enter" =>
              /\ new = old
              /\ terminal'.browserStates[b].visible
              /\ terminal.browserConfig.onSelect => terminal'.onSelect = old
              /\ BrowserActive(terminal') /\ terminal'.handled
        /\ key \in {"q", "Escape"} =>
              /\ ~ terminal'.browserStates[b].active
              /\ ~ terminal'.browserStates[b].visible
              /\ terminal'.activeBrowser = "null"
              /\ terminal'.handled
        /\ key \in {"a", "0"} => (new = old /\ ~ terminal'.handled)
        /\ \A other \in DOMAIN terminal.browserStates :
              other # b => terminal'.browserStates[other] = terminal.browserStates[other]
    ]_vars

\* ArrowDown (or j) found the last item of a three-item browser selected and
\* left it selected
C16_Witness_ArrowDownAtLast ==
  /\ BrowserActive(terminal)
  /\ terminal.lastKey \in {"ArrowDown", "j"}
  /\ terminal.browserConfig.maxItems = 3
  /\ terminal.browserStates[terminal.activeBrowser].selectedIndex = 2
  /\ terminal.formatted = 2

----------------------------------------------------------------------------
(* Claims about the webhook route, checked under SpecWebhook *)

\* the failures of calls handleQuestion awaits outside its try block
OutsideTry == {"rateLimitReply", "typing"}

\* the failures that reach the catch block of handleQuestion
InsideTry ==
  {"config", "retrieve", "streamText", "placeholder", "stream", "fallback"}

\* the webhook request gave its update to handleQuestion
Questioned == webhook.question # ""

\* a promise bot.handleUpdate waits for was rejected
HandlerRejected ==
  \/ "askReply" \in webhook.failures
  \/ Questioned /\ tg[1].failures \cap OutsideTry # {}

\* C21: a POST is answered 200 'OK' exactly when its body parses and
\* bot.handleUpdate resolves, and 500 exactly when req.json() or
\* bot.handleUpdate throws, which bot.handleUpdate does only for a call awaited
\* outside handleQuestion's try block; an error raised inside the try block
\* (configuration, retrieval, streamText, placeholder, stream, fallback reply)
\* is caught there, the error reply is the last call made, and the response
\* is 200; GET and HEAD are answered 200.
C21_WebhookResponses ==
  /\ webhook.probe.method = "GET" => webhook.probe.response = Response("OK", 200)
  /\ webhook.probe.method = "HEAD" =>
       webhook.probe.response = Response(NullBody, 200)
  /\ (webhook.pc = "handling" /\ tg[1].caught # "") =>
       /\ tg[1].caught \in InsideTry
       /\ tg[1].pc = "done"
       /\ tg[1].out[Len(tg[1].out)] = Call("reply", ERROR_REPLY)
  /\ webhook.pc = "responded" =>
       /\ webhook.response \in
            {Response("OK", 200), Response("Internal server error", 500)}
       /\ webhook.response.status = 500 <=> webhook.thrown # ""
       /\ webhook.thrown = "json" <=> ~ webhook.update.parses
       /\ webhook.thrown = "handleUpdate" <=>
            (webhook.update.parses /\ HandlerRejected)
       /\ (Questioned /\ tg[1].caught # "") =>
            /\ webhook.response = Response("OK", 200)
            /\ tg[1].out[Len(tg[1].out)] = Call("reply", ERROR_REPLY)

\* a question whose fallback reply failed was answered 200 after a HEAD request
C21_Witness_FallbackFailedAnswered200 ==
  /\ webhook.pc = "responded"
  /\ Questioned
  /\ tg[1].caught = "fallback"
  /\ webhook.response = Response("OK", 200)
  /\ webhook.probe.method = "HEAD"

----------------------------------------------------------------------------
(* Claims about the Terminal's render-time merge, checked under SpecMerge *)

IsHistory(m) == m.type = "history"

IsAi(m) == m.type = "ai"

\* the positions of the 'input' entries of a history, in order
InputPositions(history) ==
  SelectSeq([i \in 1..Len(history) |-> i], LAMBDA i : history[i].type = "input")

\* the merged list holds every history entry once in history order, every
\* assistant message once in message order, and the k-th assistant message
\* directly after the k-th 'input' entry
MergedInOrder(t) ==
  LET combined == t.render.combinedMessages
      aiMessages == AiMessages(t.messages)
      inputs == InputPositions(t.history)
  IN /\ SelectSeq(combined, IsHistory)
          = [i \in 1..Len(t.history) |-> CombinedHistory(t.history, i - 1)]
     /\ SelectSeq(combined, IsAi)
          = [k \in 1..Len(aiMessages) |-> CombinedAi(aiMessages[k])]
     /\ \A k \in 1..Len(aiMessages) :
          /\ k <= Len(inputs)
          /\ \E j \in 2..Len(combined) :
               /\ combined[j] = CombinedAi(aiMessages[k])
               /\ combined[j - 1] = CombinedHistory(t.history, inputs[k] - 1)

\* C22: the render-time merge terminates for every history and every list of
\* assistant messages (every iteration of its outer loop takes an entry or a
\* message, so the iterations never outnumber what was taken), and the merged
\* list it ends with holds every history entry once in order, every assistant
\* message once in order, the k-th assistant message directly after the k-th
\* 'input' entry.
C22_MergeTerminatesInOrder ==
  /\ terminal.render.pc = "merging" =>
       terminal.render.iterations
         <= terminal.render.historyIndex + terminal.render.aiMessageIndex
  /\ terminal.render.pc = "rendered" => MergedInOrder(terminal)

\* the merge that ends is in order: the part of C22 that holds
MergeInOrderWhenOver ==
  terminal.render.pc = "rendered" =>
    /\ MergedInOrder(terminal)
    /\ Len(AiMessages(terminal.messages)) <= Len(InputPositions(terminal.history))

\* the merge never ends once the assistant messages outnumber the 'input'
\* entries
MergeStuckWhenOutnumbered ==
  (/\ terminal.render.pc = "merging"
   /\ Len(AiMessages(terminal.messages)) > Len(InputPositions(terminal.history)))
    => MergePending(terminal)

----------------------------------------------------------------------------
(* Claims about the Terminal's command submission, checked under SpecSubmit *)

\* the entries a step added to the history after the first one it added
AddedAfterEcho ==
  SubSeq(terminal'.history, Len(terminal.history) + 2, Len(terminal'.history))

\* the line executeCommand itself added in the step, if any
ExecutorLines ==
  IF terminal'.submit.executorLine
    THEN <<HistoryEntry("output", "[browser]", FALSE)>>
    ELSE <<>>

\* the step left the chat alone
NothingSent ==
  /\ terminal'.sent = terminal.sent
  /\ terminal'.messages = terminal.messages
  /\ terminal'.isWaitingForResponse = terminal.isWaitingForResponse

\* C23: a call of handleSubmit before the boot sequence is over or with a blank
\* command changes no state; any other call appends exactly one entry
\* '> <command>' of type input, sets hasInteracted, clears the input and does
\* exactly one of: leave the command to the executor that handled it (its
\* string or object output appended once, nothing appended by handleSubmit for
\* 'BROWSER_ACTIVATED' or an output that is neither), send the command to the
\* AI once and set isWaitingForResponse (executor returned null, AI enabled),
\* or append 'Command not found: <command>' (executor returned null, AI
\* disabled); a command the executor handled is never sent to the AI.
C23_HandleSubmitDispatch ==
  [][terminal'.submit.turn # terminal.submit.turn =>
       LET command == terminal'.submit.command
           output == terminal'.submit.output
       IN
       IF ~ terminal.bootComplete \/ command \in {"", "  "}
         THEN [terminal' EXCEPT !.submit = terminal.submit] = terminal
       ELSE
         /\ Len(terminal'.history) > Len(terminal.history)
         /\ SubSeq(terminal'.history, 1, Len(terminal.history) + 1)
              = Append(terminal.history, HistoryEntry("input", "> " \o command, FALSE))
         /\ Len(InputPositions(terminal'.history))
              = Len(InputPositions(terminal.history)) + 1
         /\ terminal'.hasInteracted
         /\ terminal'.input = ""
         /\ IF output.kind # "null" THEN
              /\ NothingSent
              /\ AddedAfterEcho =
                   ExecutorLines \o
                   (IF output.kind = "string" /\ output.content # "BROWSER_ACTIVATED"
                      THEN <<HistoryEntry("output", output.content, FALSE)>>
                    ELSE IF output.kind = "object"
                      THEN <<HistoryEntry("output", output.content,
                                          output.typewriter)>>
                    ELSE <<>>)
            ELSE IF terminal.aiEnabled THEN
              /\ terminal'.sent = Append(terminal.sent, command)
              /\ Len(terminal'.messages) = Len(terminal.messages) + 1
              /\ terminal'.isWaitingForResponse
              /\ AddedAfterEcho = ExecutorLines
            ELSE
              /\ NothingSent
              /\ AddedAfterEcho =
                   ExecutorLines \o
                   <<HistoryEntry("output", "Command not found: " \o command, FALSE)>>
    ]_vars

\* a second command went to the AI after the first was answered by the
\* executor with an object
C23_Witness_SentAfterHandled ==
  /\ terminal.sent = <<"prana">>
  /\ terminal.submit.command = "prana"
  /\ terminal.submit.output.kind = "null"
  /\ terminal.isWaitingForResponse
  /\ terminal.input = ""
  /\ terminal.history =
       << HistoryEntry("input", "> prana", FALSE), HistoryEntry("output", "Loading...", TRUE),
          HistoryEntry("input", "> prana", FALSE) >>

----------------------------------------------------------------------------
(* Claims about useAudioRecorder, checked under SpecRecorder and            *)
(* SpecTranscribe                                                           *)

\* the positions at which the stop event of a recording, or the rest of its
\* onstop handler, is still to come
OnStopPending == {"stopping", "stopEvent", "transcribing", "json"}

\* C24: whenever isRecording is false, no MediaRecorder the hook created is
\* recording and every captured stream that is still live has its onstop
\* pending, whatever the order of startRecording, stopRecording,
\* toggleRecording and the settling of getUserMedia, also when getUserMedia,
\* the MediaRecorder's construction or its start fails.
C24_NothingHeldWhenNotRecording ==
  ~ recorder.isRecording =>
    \A id \in 1..recorder.calls :
      /\ recorder.recordings[id].state # "recording"
      /\ recorder.recordings[id].stream = "live" =>
           recorder.recordings[id].pc \in OnStopPending

\* stopRecording was called while getUserMedia was pending, and the recording
\* started afterwards
StoppedWhilePendingStillRecords ==
  /\ ~ recorder.isRecording
  /\ recorder.calls = 1
  /\ recorder.recordings[1].state = "recording"

\* the MediaRecorder could not be constructed and the stream stays live
ConstructionFailedStreamHeld ==
  /\ ~ recorder.isRecording
  /\ recorder.calls = 1
  /\ recorder.recordings[1].pc = "failed"
  /\ recorder.recordings[1].stream = "live"

\* C25: the clean-up that ends a recording's onstop handler stops the tracks
\* of that recording's stream and of no other: a recording whose handler ran
\* to its end has its stream stopped, no stream is stopped by the handler of
\* another recording, and the blob a handler builds holds only chunks of its
\* own recording.
C25_OnStopReleasesOwnStream ==
  \A id \in 1..recorder.calls :
    /\ recorder.recordings[id].pc = "done" =>
         recorder.recordings[id].stream = "stopped"
    /\ recorder.recordings[id].stoppedBy \in {NoRecording, id}
    /\ \A i \in 1..Len(recorder.recordings[id].blob) :
         recorder.recordings[id].blob[i] = id

\* the first recording's handler ended its transcription after the second
\* recording's stream was captured: it stopped the second stream and left its
\* own live
OlderCleanupStopsNewerStream ==
  /\ recorder.calls = 2
  /\ recorder.recordings[1].pc = "done"
  /\ recorder.recordings[1].attempts = 1
  /\ recorder.recordings[1].stream = "live"
  /\ recorder.recordings[2].stoppedBy = 1
  /\ recorder.recordings[2].state = "recording"

\* a chunk of the first recording is in the blob of the second
ChunksMixed ==
  /\ recorder.calls = 2
  /\ Len(recorder.recordings[2].blob) = 2
  /\ recorder.recordings[2].blob[1] = 1
  /\ recorder.recordings[2].blob[2] = 2

\* the transcription of recording id is under way
Transcribing(r, id) == r.recordings[id].pc \in {"transcribing", "json"}

\* the options of recording id ask for a transcription
WantsTranscript(id) ==
  /\ ~ recorder.recordings[id].options.skipTranscription
  /\ recorder.recordings[id].options.onTranscript

\* C26: isTranscribing becomes true only in the onstop handler of a recording
\* whose options do not skip the transcription and carry an onTranscript
\* callback, and it is false after the step that ends a transcription
\* attempt, whether the request was answered OK, answered not OK or threw;
\* onTranscript is called at most once per recording, only with the non-empty
\* trimmed text of an OK response, and never when skipTranscription is set.
C26_TranscriptionFlag ==
  /\ [](recorder.isTranscribing =>
          \E id \in 1..recorder.calls :
            Transcribing(recorder, id) /\ WantsTranscript(id))
  /\ [](\A id \in 1..recorder.calls :
          /\ recorder.recordings[id].attempts <= 1
          /\ recorder.recordings[id].attempts = 1 => WantsTranscript(id)
          /\ recorder.recordings[id].transcripts \in {<<>>, <<"Om shanti">>}
          /\ recorder.recordings[id].transcripts # <<>> =>
               /\ WantsTranscript(id)
               /\ recorder.recordings[id].attempts = 1
               /\ recorder.recordings[id].response = "ok")
  /\ [][/\ (~ recorder.isTranscribing /\ recorder'.isTranscribing) =>
            \E id \in 1..recorder.calls :
              /\ recorder.recordings[id].pc = "stopEvent"
              /\ recorder'.recordings[id].pc = "transcribing"
              /\ WantsTranscript(id)
        /\ \A id \in 1..recorder.calls :
             (Transcribing(recorder, id) /\ ~ Transcribing(recorder', id)) =>
               /\ ~ recorder'.isTranscribing
               /\ recorder'.recordings[id].pc = "done"
       ]_vars

\* the first recording was transcribed and its text given to onTranscript, the
\* second one's request threw, and isTranscribing is false again
C26_Witness_TranscribedThenThrew ==
  /\ recorder.calls = 2
  /\ recorder.recordings[1].pc = "done"
  /\ recorder.recordings[1].transcripts = <<"Om shanti">>
  /\ recorder.recordings[2].pc = "done"
  /\ recorder.recordings[2].attempts = 1
  /\ recorder.recordings[2].response = "threw"
  /\ ~ recorder.isTranscribing

====
